---- MODULE Spec2Model ----
(***************************************************************************)
(* A model of bbrdb: the host-side client of the iQue Player's RDB         *)
(* protocol, its block I/O and its model of the BBFS file system.          *)
(*                                                                         *)
(* The card geometry is scaled down: a NAND block holds BLOCK_SIZE bytes,  *)
(* a FAT fragment holds FAT_FRAGMENT entries (0x1000 in the source), the   *)
(* directory has MAX_FILES slots (409 in the source), the FAT area is the  *)
(* last NUM_FATS blocks (16 in the source) and the reserved area is the    *)
(* first RESERVED_BLOCKS blocks (0x40 in the source).  Block numbers are   *)
(* the source's: 0 .. cardsize-1.  The 32-bit quantities (seqno, sizes,    *)
(* byte sums) stay far below 2^32 in every run of the model, so their      *)
(* wrapping arithmetic is written as plain arithmetic.                     *)
(***************************************************************************)
EXTENDS Integers, Sequences, FiniteSets, TLC

\* ---------------------------------------------------------------- geometry
BLOCK_SIZE == 2
FAT_FRAGMENT == 8
NUM_FATS == 4
RESERVED_BLOCKS == 1
MAX_FILES == 3
NAME_LEN == 8
EXT_LEN == 3
FAT_CHECKSUM == 51927
U16 == 2^16

\* ------------------------------------------------------------ model bounds
MaxOps == 3
MaxFail == 4
MaxWalk == 3

\* ------------------------------------------------------------- FAT entries
Free == [t |-> "Free", n |-> 0]
EndOfChain == [t |-> "EndOfChain", n |-> 0]
BadBlock == [t |-> "BadBlock", n |-> 0]
Reserved == [t |-> "Reserved", n |-> 0]
Chain(n) == [t |-> "Chain", n |-> n]

\* binrw writes a FATEntry as one big-endian 16-bit word
FATEntryWrite(e) ==
  CASE e.t = "Free" -> 0
    [] e.t = "EndOfChain" -> 65535
    [] e.t = "BadBlock" -> 65534
    [] e.t = "Reserved" -> 65533
    [] OTHER -> e.n % U16

\* binrw reads the magics first, any other word is Chain(word)
FATEntryRead(w) ==
  CASE w = 0 -> Free
    [] w = 65535 -> EndOfChain
    [] w = 65534 -> BadBlock
    [] w = 65533 -> Reserved
    [] OTHER -> Chain(w)

\* ------------------------------------------------------------------- names
\* A filename is a sequence of one-character strings; NUL pads the fields.
NUL == "NUL"

Ord(c) ==
  CASE c = NUL -> 0
    [] c = "." -> 46
    [] c = "A" -> 65
    [] c = "B" -> 66
    [] c = "a" -> 97
    [] c = "b" -> 98
    [] c = "c" -> 99
    [] c = "e" -> 101
    [] c = "m" -> 109
    [] c = "p" -> 112
    [] c = "t" -> 116
    [] OTHER -> 63

LowerChar(c) == IF c = "A" THEN "a" ELSE IF c = "B" THEN "b" ELSE c

to_lowercase(s) == [i \in 1..Len(s) |-> LowerChar(s[i])]

\* positions of '.' in s
Dots(s) == {i \in 1..Len(s) : s[i] = "."}

Min(S) == CHOOSE x \in S : \A y \in S : x <= y

\* filename.split('.'): split[0] and split[1] ("" when there is no '.')
SplitName(s) ==
  IF Dots(s) = {} THEN s
  ELSE SubSeq(s, 1, Min(Dots(s)) - 1)

SplitExt(s) ==
  IF Dots(s) = {} THEN << >>
  ELSE LET d1 == Min(Dots(s))
           later == {i \in Dots(s) : i > d1}
           stop == IF later = {} THEN Len(s) + 1 ELSE Min(later)
       IN SubSeq(s, d1 + 1, stop - 1)

PadNul(s, n) == [i \in 1..n |-> IF i <= Len(s) THEN s[i] ELSE NUL]

\* slice.split(|b| b == 0).next(): the bytes before the first NUL
UntilNul(s) ==
  LET z == {i \in 1..Len(s) : s[i] = NUL}
  IN IF z = {} THEN s ELSE SubSeq(s, 1, Min(z) - 1)

TEMP_TMP == <<"t", "e", "m", "p", ".", "t", "m", "p">>

\* --------------------------------------------------------- directory entry
FileEntryDefault ==
  [name |-> PadNul(<< >>, NAME_LEN), ext |-> PadNul(<< >>, EXT_LEN),
   valid |-> FALSE, start |-> Free, pad |-> 0, size |-> 0]

format_name(f) ==
  LET name == UntilNul(f.name)
      ext == UntilNul(f.ext)
  IN IF ext = << >> THEN name ELSE name \o <<".">> \o ext

\* set_name fails with FileNameTooLong when a part does not fit
set_name_ok(filename) ==
  LET l == to_lowercase(filename)
  IN Len(SplitName(l)) <= NAME_LEN /\ Len(SplitExt(l)) <= EXT_LEN

set_name(f, filename) ==
  LET l == to_lowercase(filename)
  IN [f EXCEPT !.name = PadNul(SplitName(l), NAME_LEN),
               !.ext = PadNul(SplitExt(l), EXT_LEN)]

next_block_size(size) == ((size + (BLOCK_SIZE - 1)) \div BLOCK_SIZE) * BLOCK_SIZE

set_size(f, filesize) ==
  LET padded == next_block_size(filesize)
  IN [f EXCEPT !.size = padded, !.pad = (padded - filesize) % U16]

FileSize(f) == f.size - f.pad

\* let v = ...; F(v): a value computed once and used by what follows
Let(v, F(_)) == F(v)

bytes_to_blocks(bytes) == (bytes + BLOCK_SIZE - 1) \div BLOCK_SIZE

\* ------------------------------------------------------------- NAND blocks
\* A NAND block holds either raw data bytes or a serialised FS block.
RECURSIVE SumTo(_, _)
SumTo(s, i) == IF i = 0 THEN 0 ELSE s[i] + SumTo(s, i - 1)

SumSeq(s) == SumTo(s, Len(s))

RawBlock(bytes) == [k |-> "raw", bytes |-> bytes]

FSTypeWord(t) == IF t = "BBFS" THEN 18003 ELSE 17996

\* the bytes of a directory entry before start: name, ext, valid
EntryHeadBytes(f) ==
  [i \in 1..NAME_LEN |-> Ord(f.name[i])] \o [i \in 1..EXT_LEN |-> Ord(f.ext[i])]
    \o <<f.valid>>

\* big-endian 16-bit words of a byte sequence (a last odd byte is a high byte)
WordsOf(bytes) ==
  [i \in 1..((Len(bytes) + 1) \div 2) |->
     bytes[2 * i - 1] * 256 + (IF 2 * i <= Len(bytes) THEN bytes[2 * i] ELSE 0)]

FileEntryWords(f) ==
  WordsOf(EntryHeadBytes(f)) \o <<f.start, f.pad, f.size \div U16, f.size % U16>>

\* Sum of the 16-bit words of a serialised FS block except the last (chksum)
FSBodySum(b) ==
  (SumSeq(b.fat)
   + SumSeq([i \in 1..Len(b.entries) |-> SumSeq(FileEntryWords(b.entries[i]))])
   + 16962 + FSTypeWord(b.fs_type)
   + (b.seqno \div U16) + (b.seqno % U16) + b.link_block) % U16

check_fat_checksum(b) == (FSBodySum(b) + b.chksum) % U16 = FAT_CHECKSUM

\* The checksum computed from the sum of the whole block, its last word included
fix_fat_checksumWholeBlock(b) ==
  [b EXCEPT !.chksum = (FAT_CHECKSUM + 2 * U16 - FSBodySum(b) - b.chksum) % U16]

fix_fat_checksum(b) ==
  [b EXCEPT !.chksum = (FAT_CHECKSUM + U16 - FSBodySum(b)) % U16]

\* FileEntry as binrw writes and reads it
FileEntryWrite(f) ==
  [name |-> f.name, ext |-> f.ext, valid |-> IF f.valid THEN 1 ELSE 0,
   start |-> FATEntryWrite(f.start), pad |-> f.pad % U16, size |-> f.size]

FileEntryRead(d) ==
  [name |-> d.name, ext |-> d.ext, valid |-> (d.valid = 1),
   start |-> FATEntryRead(d.start), pad |-> d.pad, size |-> d.size]

\* FSBlock::write_be of an in-memory FSBlock (chksum as given)
FSBlockWrite(fs) ==
  [k |-> "fs",
   fat |-> [i \in 1..Len(fs.fat) |-> FATEntryWrite(fs.fat[i])],
   entries |-> [i \in 1..Len(fs.entries) |-> FileEntryWrite(fs.entries[i])],
   fs_type |-> fs.fs_type, seqno |-> fs.seqno,
   link_block |-> fs.link_block % U16, chksum |-> fs.chksum]

\* FSBlock::read_be
FSBlockRead(b) ==
  [fat |-> [i \in 1..Len(b.fat) |-> FATEntryRead(b.fat[i])],
   entries |-> [i \in 1..Len(b.entries) |-> FileEntryRead(b.entries[i])],
   fs_type |-> b.fs_type, seqno |-> b.seqno,
   link_block |-> b.link_block, chksum |-> b.chksum]

\* -------------------------------------------------------------- in-memory
\* Fat: entries[b + 1] is the FAT entry of block b.
EntryOf(fat, b) == fat.entries[b + 1]

Chunks(s, n) ==
  [i \in 1..((Len(s) + n - 1) \div n) |->
     SubSeq(s, (i - 1) * n + 1, IF i * n <= Len(s) THEN i * n ELSE Len(s))]

\* Fat::blocks: one FSBlock per FAT_FRAGMENT entries, link and chksum still 0
blocks(fat) ==
  LET ch == Chunks(fat.entries, FAT_FRAGMENT)
  IN [index \in 1..Len(ch) |->
        [fat |-> ch[index],
         entries |-> IF index = 1
                       THEN [i \in 1..MAX_FILES |->
                               IF i <= Len(fat.files) THEN fat.files[i]
                               ELSE FileEntryDefault]
                       ELSE [i \in 1..MAX_FILES |-> FileEntryDefault],
         fs_type |-> IF index = 1 THEN "BBFS" ELSE "BBFL",
         seqno |-> fat.seqno + 1,
         link_block |-> 0,
         chksum |-> 0]]

\* ------------------------------------------------------------ the device
\* The state an operation works on is threaded through its steps as a record
\*   fat     the handle's loaded FAT (NoFat when there is none)
\*   nand    the card: block number -> block content
\*   dev     the FAT the device's firmware holds since its last InitFS
\*   log     the commands the operation has sent to the device
\*   commits the seqnos of the generations committed in this session
\*   size    the card size the handle got from GetNumBlocks
\*   err     "Ok" until a step fails, then the error (later steps are skipped)
\*   wn, flt the number of block writes so far and the injected device fault
NoFat == [none |-> TRUE]
HasFat(f) == "entries" \in DOMAIN f

NoFault == [fail |-> 0, lose |-> 0]

Erased == RawBlock([i \in 1..BLOCK_SIZE |-> 255])
Unreadable == [k |-> "bad"]

Fail(m, e) == IF m.err = "Ok" THEN [m EXCEPT !.err = e] ELSE m

\* read_blocks_spare(block, 1): the block's content, or an error
ReadOk(nand, block) == block \in DOMAIN nand /\ nand[block].k # "bad"

BlockBytes(b) ==
  IF b.k = "raw" THEN b.bytes ELSE [i \in 1..BLOCK_SIZE |-> 255]

\* read_fat_block: read, verify the checksum, parse
read_fat_block_ok(nand, block) ==
  /\ ReadOk(nand, block)
  /\ nand[block].k = "fs"
  /\ check_fat_checksum(nand[block])

read_fat_block(nand, block) == FSBlockRead(nand[block])

\* read_fat_block: the error of a block that read_fat_block_ok refuses.  The
\* block is read, then its checksum is verified, and only then is it parsed;
\* a block of file data does not sum to FAT_CHECKSUM.
read_fat_block_err(nand, block) ==
  IF ~ReadOk(nand, block) THEN "ReadBlock" ELSE "InvalidFATChecksum"

\* The first loop without the test of the magic: a continuation fragment
\* (BBFL) can become the start
RECURSIVE BestScanAnyMagic(_, _, _, _, _)
BestScanAnyMagic(nand, size, f, best_seqno, best_fat) ==
  IF f >= NUM_FATS THEN best_fat
  ELSE LET blk == size - f - 1
           hit == /\ read_fat_block_ok(nand, blk)
                  /\ nand[blk].seqno >= best_seqno
       IN IF hit
            THEN BestScanAnyMagic(nand, size, f + 1, nand[blk].seqno, f)
            ELSE BestScanAnyMagic(nand, size, f + 1, best_seqno, best_fat)

\* find_best_fat, first loop: the slot f of the best first fragment, or -1
RECURSIVE BestScan(_, _, _, _, _)
BestScan(nand, size, f, best_seqno, best_fat) ==
  IF f >= NUM_FATS THEN best_fat
  ELSE LET blk == size - f - 1
           hit == /\ read_fat_block_ok(nand, blk)
                  /\ nand[blk].fs_type = "BBFS"
                  /\ nand[blk].seqno >= best_seqno
       IN IF hit
            THEN BestScan(nand, size, f + 1, nand[blk].seqno, f)
            ELSE BestScan(nand, size, f + 1, best_seqno, best_fat)

\* _Fat::add_block
add_block(acc, block, num) ==
  [entries |-> acc.entries \o block.fat,
   files |-> IF acc.files = << >> THEN block.entries ELSE acc.files,
   seqno |-> IF acc.seqno = -1 THEN block.seqno ELSE acc.seqno,
   blkno |-> IF acc.blkno = -1 THEN num ELSE acc.blkno,
   panic |-> \/ acc.panic
             \/ (acc.seqno # -1 /\ acc.seqno # block.seqno)
             \/ (acc.blkno # -1 /\ acc.blkno # num),
   addrs |-> acc.addrs]

\* find_best_fat, second loop: follow link_block from the best fragment.
\* The loop of the source has no bound; a walk longer than MaxWalk fragments
\* is reported as "Diverge".
RECURSIVE WalkFat(_, _, _, _, _)
WalkFat(nand, link, f, acc, fuel) ==
  IF link = 0 THEN [r |-> "Ok", fat |-> acc]
  ELSE IF fuel = 0 THEN [r |-> "Diverge", fat |-> acc]
  ELSE IF ~read_fat_block_ok(nand, link)
    THEN [r |-> read_fat_block_err(nand, link), fat |-> acc]
  ELSE LET b == read_fat_block(nand, link)
           a == add_block([acc EXCEPT !.addrs = Append(@, link)], b, f)
       IN IF a.panic THEN [r |-> "Panic", fat |-> a]
          ELSE WalkFat(nand, b.link_block, f, a, fuel - 1)

NewFat == [entries |-> << >>, files |-> << >>, seqno |-> -1, blkno |-> -1,
           panic |-> FALSE, addrs |-> << >>]

\* find_best_fat(cardsize): [r, fat]; fat.addrs lists the blocks it was read from
find_best_fat(nand, size) ==
  IF size = 0 THEN [r |-> "UnhandledCardSize", fat |-> NewFat]
  ELSE LET f == BestScan(nand, size, 0, 0, -1)
       IN IF f = -1 THEN [r |-> "NoFAT", fat |-> NewFat]
          ELSE WalkFat(nand, size - f - 1, f, NewFat, MaxWalk)

ToFat(a) == [entries |-> a.entries, files |-> a.files, seqno |-> a.seqno,
             blkno |-> a.blkno]

\* Fat::check follows the chain of one Valid file: it returns when it meets
\* EndOfChain, indexes out of the table ("Panic"), and never leaves the loop
\* when it meets Free, BadBlock or Reserved or runs in a cycle ("Hang").
RECURSIVE CheckChain(_, _, _)
CheckChain(entries, b, fuel) ==
  IF b.t = "EndOfChain" THEN "Ok"
  ELSE IF b.t # "Chain" THEN "Hang"
  ELSE IF b.n + 1 > Len(entries) THEN "Panic"
  ELSE IF fuel = 0 THEN "Hang"
  ELSE CheckChain(entries, entries[b.n + 1], fuel - 1)

check(fat) ==
  LET res == {CheckChain(fat.entries, fat.files[i].start, Len(fat.entries)) :
                i \in {j \in 1..Len(fat.files) : fat.files[j].valid}}
  IN IF "Panic" \in res THEN "Panic"
     ELSE IF "Hang" \in res THEN "Hang"
     ELSE "Ok"

\* read_fat(cardsize)
read_fat(nand, size) ==
  Let(find_best_fat(nand, size), LAMBDA r :
    IF r.r # "Ok" THEN r
    ELSE [r |-> check(r.fat), fat |-> r.fat])

\* The blocks that hold the generation a load of the card would select
CurrentBlocks(nand) ==
  Let(find_best_fat(nand, Cardinality(DOMAIN nand)), LAMBDA r :
    IF r.r \in {"NoFAT", "UnhandledCardSize"} THEN {}
    ELSE {r.fat.addrs[i] : i \in 1..Len(r.fat.addrs)})

\* One block write reaching the device (WriteBlockAndSpare).  The write with
\* number flt.fail returns an error and leaves the block as it was; the write
\* with number flt.lose is acknowledged but the block keeps its content.
DevWrite(m, addr, content, what) ==
  IF m.err # "Ok" THEN m
  ELSE LET n == m.wn + 1
           bad == m.flt.fail = n \/ addr \notin DOMAIN m.nand
           e == [c |-> "WriteBlockAndSpare", blk |-> addr, what |-> what,
                 cur |-> what = "fat" /\ addr \in CurrentBlocks(m.nand),
                 seqno |-> IF what = "fat" THEN content.seqno ELSE 0,
                 ok |-> ~bad]
       IN [m EXCEPT !.wn = n,
                    !.log = Append(@, e),
                    !.nand = IF bad \/ m.flt.lose = n THEN @
                             ELSE [@ EXCEPT ![addr] = content],
                    !.err = IF bad THEN "WriteBlock" ELSE "Ok"]

\* The firmware's InitFS: it scans the card again for the current FAT
DeviceScan(nand) ==
  Let(find_best_fat(nand, Cardinality(DOMAIN nand)), LAMBDA r :
    IF r.r = "Ok" THEN ToFat(r.fat) ELSE NoFat)

\* init_fs: the InitFS command; a non-zero status is a card error
init_fs(m) ==
  IF m.err # "Ok" THEN m
  ELSE Let(DeviceScan(m.nand), LAMBDA d :
         [m EXCEPT !.dev = d,
                   !.log = Append(@, [c |-> "InitFS"]),
                   !.err = IF HasFat(d) THEN "Ok" ELSE "CardError"])

\* get_file / find_file: the slot of the first valid entry with that name, 0 if none
find_file(fat, filename) ==
  LET l == to_lowercase(filename)
      hits == {i \in 1..Len(fat.files) :
                 fat.files[i].valid /\ format_name(fat.files[i]) = l}
  IN IF hits = {} THEN 0 ELSE Min(hits)

\* free_blocks: walk the chain, setting every entry on it to Free
RECURSIVE free_blocks(_, _)
free_blocks(entries, next_block) ==
  IF next_block.t # "Chain" THEN [entries |-> entries, panic |-> FALSE]
  ELSE IF next_block.n + 1 > Len(entries) THEN [entries |-> entries, panic |-> TRUE]
  ELSE free_blocks([entries EXCEPT ![next_block.n + 1] = Free],
                   entries[next_block.n + 1])

\* delete_file that clears the directory entry and leaves the chain allocated
delete_fileKeepsChain(m, filename) ==
  IF m.err # "Ok" THEN m
  ELSE IF ~HasFat(m.fat) THEN Fail(m, "NotInitialised")
  ELSE Let(find_file(m.fat, filename), LAMBDA i :
         IF i = 0 THEN m
         ELSE [m EXCEPT !.fat.files[i] = FileEntryDefault])

\* delete_file (the in-memory part of DeleteFile)
delete_file(m, filename) ==
  IF m.err # "Ok" THEN m
  ELSE IF ~HasFat(m.fat) THEN Fail(m, "NotInitialised")
  ELSE Let(find_file(m.fat, filename), LAMBDA i :
         IF i = 0 THEN m
         ELSE Let(free_blocks(m.fat.entries, m.fat.files[i].start), LAMBDA fr :
                [m EXCEPT !.fat.files[i] = FileEntryDefault,
                          !.fat.entries = fr.entries,
                          !.err = IF fr.panic THEN "Panic" ELSE "Ok"]))

\* rename_file
rename_file(m, from, to) ==
  IF m.err # "Ok" THEN m
  ELSE IF to_lowercase(from) = to_lowercase(to) THEN m
  ELSE Let(delete_file(m, to), LAMBDA d :
         IF d.err # "Ok" THEN d
         ELSE Let(find_file(d.fat, from), LAMBDA i :
                IF i = 0 THEN Fail(d, "FileNotFound")
                ELSE IF ~set_name_ok(to) THEN Fail(d, "FileNameTooLong")
                ELSE [d EXCEPT !.fat.files[i] = set_name(@, to)]))

get_file_block_count(fat, filename) ==
  bytes_to_blocks(fat.files[find_file(fat, filename)].size)

get_free_block_count(fat) ==
  Cardinality({i \in 1..Len(fat.entries) : fat.entries[i] = Free})

\* The address of fragment j when the slot index is not advanced first
next_fat_blockInPlace(fat, size, j) == size - ((fat.blkno + j - 1) % NUM_FATS) - 1

\* update_fs: the NAND address of fragment j (1-based) of the next generation
next_fat_block(fat, size, j) == size - ((fat.blkno + j) % NUM_FATS) - 1

\* write_fat_block: serialise, fix the checksum, write the block
write_fat_block(m, block, fs) ==
  DevWrite(m, block, fix_fat_checksum(FSBlockWrite(fs)), "fat")

RECURSIVE WriteFragments(_, _, _, _)
WriteFragments(m, bl, addrs, j) ==
  IF j > Len(bl) THEN m
  ELSE WriteFragments(write_fat_block(m, addrs[j], bl[j]), bl, addrs, j + 1)

\* update_fs: commit the in-memory FAT as the next generation, then InitFS
update_fs(m) ==
  IF m.err # "Ok" THEN m
  ELSE IF ~HasFat(m.fat) THEN Fail(m, "NotInitialised")
  ELSE Let(blocks(m.fat), LAMBDA bl0 :
       Let([j \in 1..Len(bl0) |-> next_fat_block(m.fat, m.size, j)], LAMBDA addrs :
       Let([j \in 1..Len(bl0) |->
              [bl0[j] EXCEPT !.link_block =
                 IF j + 1 <= Len(addrs) THEN addrs[j + 1] ELSE 0]], LAMBDA bl :
       Let(init_fs(WriteFragments(m, bl, addrs, 1)), LAMBDA w :
         IF w.err # "Ok" THEN w
         ELSE [w EXCEPT !.commits = Append(@, bl0[1].seqno)]))))

calc_file_checksum(data) == SumSeq(data)

\* The bytes of a file as the device reads them: the blocks of its chain
RECURSIVE ChainBytes(_, _, _, _)
ChainBytes(entries, nand, e, fuel) ==
  IF e.t # "Chain" \/ fuel = 0 \/ e.n \notin DOMAIN nand \/ e.n + 1 > Len(entries)
    THEN << >>
  ELSE BlockBytes(nand[e.n]) \o ChainBytes(entries, nand, entries[e.n + 1], fuel - 1)

\* The firmware's ChksumFile: does the byte sum of the first size bytes of the
\* named file, in the FAT the device holds, equal chksum?
DeviceChksum(dev, nand, filename, chksum, size) ==
  /\ HasFat(dev)
  /\ Let(set_name(FileEntryDefault, filename), LAMBDA probe :
     Let({i \in 1..Len(dev.files) :
            /\ dev.files[i].valid
            /\ dev.files[i].name = probe.name
            /\ dev.files[i].ext = probe.ext}, LAMBDA hits :
       /\ hits # {}
       /\ Let(ChainBytes(dev.entries, nand, dev.files[Min(hits)].start,
                         Len(dev.entries)), LAMBDA bytes :
            /\ size <= Len(bytes)
            /\ SumSeq(SubSeq(bytes, 1, size)) = chksum)))

\* checksum_file: [m, match]
checksum_file(m, filename, chksum, size) ==
  IF ~set_name_ok(filename) THEN [m |-> Fail(m, "FileNameTooLong"), match |-> FALSE]
  ELSE Let(DeviceChksum(m.dev, m.nand, to_lowercase(filename), chksum, size),
           LAMBDA ok :
         [m |-> [m EXCEPT !.log = Append(@, [c |-> "ChksumFile",
                                            name |-> to_lowercase(filename),
                                            chksum |-> chksum, size |-> size,
                                            ok |-> ok])],
          match |-> ok])

\* validate_file_write: [m, write]; write = FALSE when the stored file matches
validate_file_write(m, filename, chksum, size) ==
  IF ~HasFat(m.fat) THEN [m |-> Fail(m, "NotInitialised"), write |-> FALSE]
  ELSE Let(find_file(m.fat, filename), LAMBDA i :
       Let(get_free_block_count(m.fat), LAMBDA free :
         IF i # 0
           THEN Let(checksum_file(m, filename, chksum, FileSize(m.fat.files[i])),
                    LAMBDA c :
                Let(get_file_block_count(m.fat, filename), LAMBDA block_count :
                  IF c.m.err # "Ok" THEN [m |-> c.m, write |-> FALSE]
                  ELSE IF c.match THEN [m |-> c.m, write |-> FALSE]
                  ELSE IF size < (free + block_count) * BLOCK_SIZE
                    THEN [m |-> c.m, write |-> TRUE]
                  ELSE [m |-> Fail(c.m, "FileTooBig"), write |-> FALSE]))
           ELSE IF size <= free * BLOCK_SIZE THEN [m |-> m, write |-> TRUE]
                ELSE [m |-> Fail(m, "FileTooBig"), write |-> FALSE]))

\* find_next_free_block: the first Free entry at index >= start_at, -1 if none
find_next_free_block(fat, start_at) ==
  LET c == {b \in start_at..(Len(fat.entries) - 1) : EntryOf(fat, b) = Free}
  IN IF c = {} THEN -1 ELSE Min(c)

\* find_blank_file_entry: the first slot that is not valid, 0 if none
find_blank_file_entry(fat) ==
  LET c == {i \in 1..Len(fat.files) : ~fat.files[i].valid}
  IN IF c = {} THEN 0 ELSE Min(c)

\* write_file_entry
write_file_entry(m, filename, start_block, filesize) ==
  IF m.err # "Ok" THEN m
  ELSE Let(find_blank_file_entry(m.fat), LAMBDA i :
         IF i = 0 THEN Fail(m, "NoEmptyFileSlots")
         ELSE IF ~set_name_ok(filename) THEN Fail(m, "FileNameTooLong")
         ELSE [m EXCEPT !.fat.files[i] =
                 set_size([set_name(@, filename) EXCEPT
                             !.valid = TRUE,
                             !.start = Chain(start_block % U16)], filesize)])

\* update_fs_links, first part: the blocks to chain; << >> when a search fails
RECURSIVE PickBlocks(_, _, _, _)
PickBlocks(fat, picked, allocated_size, size) ==
  IF allocated_size >= size THEN picked
  ELSE Let(find_next_free_block(fat, picked[Len(picked)] + 1), LAMBDA next :
         IF next = -1 THEN << >>
         ELSE PickBlocks(fat, Append(picked, next % U16),
                         allocated_size + BLOCK_SIZE, size))

\* update_fs_links, second part: chain the picked blocks in the FAT
LinkBlocks(entries, picked) ==
  [i \in 1..Len(entries) |->
     IF \E j \in 1..Len(picked) : picked[j] + 1 = i
       THEN LET j == CHOOSE k \in 1..Len(picked) :
                       picked[k] + 1 = i /\ \A l \in k + 1..Len(picked) : picked[l] + 1 # i
            IN IF j = Len(picked) THEN EndOfChain ELSE Chain(picked[j + 1])
       ELSE entries[i]]

\* write_file_blocks: one WriteBlockAndSpare per chunk, the last padded with 0
RECURSIVE WriteChunks(_, _, _, _)
WriteChunks(m, chunks, blocks_to_write, j) ==
  IF j > Len(chunks) THEN m
  ELSE WriteChunks(
         DevWrite(m, blocks_to_write[j],
                  RawBlock([i \in 1..BLOCK_SIZE |->
                              IF i <= Len(chunks[j]) THEN chunks[j][i] ELSE 0]),
                  "data"),
         chunks, blocks_to_write, j + 1)

write_file_blocks(m, data, blocks_to_write) ==
  IF m.err # "Ok" THEN m
  ELSE IF \E j \in 1..Len(blocks_to_write) :
            ~(blocks_to_write[j] >= RESERVED_BLOCKS
              /\ blocks_to_write[j] < m.size - NUM_FATS)
    THEN Fail(m, "Panic")
  ELSE Let(Chunks(data, BLOCK_SIZE), LAMBDA chunks :
         IF Len(blocks_to_write) # Len(chunks) THEN Fail(m, "IncorrectNumBlocks")
         ELSE WriteChunks(m, chunks, blocks_to_write, 1))

\* update_fs_links
update_fs_links(m, picked) ==
  IF m.err # "Ok" THEN m
  ELSE IF picked = << >> THEN Fail(m, "NoFreeBlocks")
  ELSE [m EXCEPT !.fat.entries = LinkBlocks(@, picked)]

\* write_blocks_to_temp_file
write_blocks_to_temp_file(m, data) ==
  Let(delete_file(m, TEMP_TMP), LAMBDA d :
    IF d.err # "Ok" THEN d
    ELSE Let(find_next_free_block(d.fat, RESERVED_BLOCKS), LAMBDA start_block :
      IF start_block = -1 THEN Fail(d, "NoFreeBlocks")
      ELSE Let(write_file_entry(d, TEMP_TMP, start_block, Len(data)), LAMBDA e :
        IF e.err # "Ok" THEN e
        ELSE Let(FileSize(e.fat.files[find_file(e.fat, TEMP_TMP)]),
                 LAMBDA written_size :
             Let(PickBlocks(e.fat, <<start_block % U16>>, BLOCK_SIZE, written_size),
                 LAMBDA picked :
               write_file_blocks(update_fs_links(e, picked), data, picked))))))

\* check_and_cleanup_temp_file
check_and_cleanup_temp_file(m, filename, chksum, size) ==
  IF m.err # "Ok" THEN m
  ELSE Let(checksum_file(m, TEMP_TMP, chksum, size), LAMBDA c :
         IF c.m.err # "Ok" THEN c.m
         ELSE IF c.match THEN rename_file(c.m, TEMP_TMP, filename)
         ELSE Fail(c.m, "ChecksumFailed"))

\* WriteFile
WriteFile(m, data, filename) ==
  Let(calc_file_checksum(data), LAMBDA chksum :
  Let(validate_file_write(m, filename, chksum, Len(data)), LAMBDA v :
    IF v.m.err # "Ok" \/ ~v.write THEN v.m
    ELSE update_fs(
           check_and_cleanup_temp_file(
             update_fs(write_blocks_to_temp_file(delete_file(v.m, filename), data)),
             filename, chksum, Len(data)))))

\* DeleteFile
DeleteFile(m, filename) == update_fs(delete_file(m, filename))

\* RenameFile
RenameFile(m, from, to) == update_fs(rename_file(m, from, to))

\* read_file_blocks: [r, data]
RECURSIVE read_file_blocks(_, _, _, _, _)
read_file_blocks(fat, nand, want, next_block, filebuf) ==
  IF ~(Len(filebuf) < want /\ next_block.t = "Chain")
    THEN [r |-> "Ok", data |-> filebuf]
  ELSE IF ~ReadOk(nand, next_block.n) THEN [r |-> "ReadBlock", data |-> filebuf]
  ELSE IF next_block.n + 1 > Len(fat.entries) THEN [r |-> "Panic", data |-> filebuf]
  ELSE LET read_block == BlockBytes(nand[next_block.n])
           left == want - Len(filebuf)
           to_write == SubSeq(read_block, 1,
                              IF Len(read_block) < left THEN Len(read_block) ELSE left)
       IN read_file_blocks(fat, nand, want, EntryOf(fat, next_block.n),
                           filebuf \o to_write)

\* ReadFile: [r, found, data]; found = FALSE is Ok(None)
ReadFile(fat, nand, filename) ==
  IF ~HasFat(fat) THEN [r |-> "NotInitialised", found |-> FALSE, data |-> << >>]
  ELSE LET i == find_file(fat, filename)
       IN IF i = 0 THEN [r |-> "Ok", found |-> FALSE, data |-> << >>]
          ELSE Let(read_file_blocks(fat, nand, FileSize(fat.files[i]),
                                    fat.files[i].start, << >>), LAMBDA rd :
                 [r |-> rd.r, found |-> TRUE, data |-> rd.data])

\* ListFiles: the (name, size) pairs of the valid entries, in directory order
IsValid(f) == f.valid

ListFiles(fat) ==
  LET v == SelectSeq(fat.files, IsValid)
  IN [i \in 1..Len(v) |-> <<format_name(v[i]), FileSize(v[i])>>]

\* The fold without the BadBlock arm: bad blocks are counted as used
CardStatsBadAsUsed(fat) ==
  [free |-> Cardinality({i \in 1..Len(fat.entries) : fat.entries[i] = Free}),
   bad |-> 0,
   used |-> Cardinality({i \in 1..Len(fat.entries) : fat.entries[i] # Free}),
   seqno |-> fat.seqno]

\* CardStats
CardStats(fat) ==
  [free |-> Cardinality({i \in 1..Len(fat.entries) : fat.entries[i] = Free}),
   bad |-> Cardinality({i \in 1..Len(fat.entries) : fat.entries[i] = BadBlock}),
   used |-> Cardinality({i \in 1..Len(fat.entries) :
                           fat.entries[i] # Free /\ fat.entries[i] # BadBlock}),
   seqno |-> fat.seqno]

\* DumpCurrentFS: the blocks of the loaded FAT, serialised, checksum fixed
DumpCurrentFS(fat) ==
  Let(blocks(fat), LAMBDA bl :
    [j \in 1..Len(bl) |-> fix_fat_checksum(FSBlockWrite(bl[j]))])

\* ------------------------------------------------------------- the session
VARIABLES
  nand,            \* the card: block number -> content
  dev,             \* the FAT the device holds since its last InitFS
  is_initialised,  \* BBPlayer.is_initialised
  cardsize,        \* the card size the handle learnt at Init
  fat,             \* the handle's loaded FAT, NoFat before the first load
  commits,         \* seqnos of the generations committed since the last load
  loaded,          \* seqno of the generation loaded by the last Init, -1 if none
  last,            \* the last operation: its name, arguments, result, commands
                   \* sent, and the handle and card as they were before it
  ops,             \* number of operations that reached the device so far
  wire             \* the USB channel: what the device has sent and the host has
                   \* not read yet, and where the device is in its exchange

vars == <<nand, dev, is_initialised, cardsize, fat, commits, loaded, last, ops, wire>>

\* ------------------------------------------------------------ model inputs
N_a == <<"a">>
N_A == <<"A">>
N_adot == <<"a", ".">>
N_b == <<"b">>

Names == {N_a, N_A, N_adot, N_b}

DataSet == {<< >>, <<1>>, <<1, 0>>, <<1, 1, 1>>}

Faults ==
  {NoFault} \cup {[fail |-> k, lose |-> 0] : k \in 1..MaxFail}
            \cup {[fail |-> 0, lose |-> 1]}

\* ------------------------------------------------------------- card images
BaseEntries(size) ==
  [i \in 1..size |->
     IF i - 1 < RESERVED_BLOCKS \/ i - 1 >= size - NUM_FATS THEN Reserved ELSE Free]

Machine(f, n, d, size, flt) ==
  [fat |-> f, nand |-> n, dev |-> d, size |-> size, log |-> << >>,
   commits |-> << >>, err |-> "Ok", wn |-> 0, flt |-> flt]

\* An empty file system of the given size whose current generation has the
\* given seqno and starts in the given slot, as a commit of this library
\* leaves it
Blank(size, seqno, slot) ==
  update_fs(Machine([entries |-> BaseEntries(size),
                     files |-> [i \in 1..MAX_FILES |-> FileEntryDefault],
                     seqno |-> seqno - 1,
                     blkno |-> (slot + NUM_FATS - 1) % NUM_FATS],
                    [b \in 0..size - 1 |-> Erased], NoFat, size, NoFault))

\* The card after a session that loaded it and wrote one file
Reload(m) ==
  Machine(ToFat(read_fat(m.nand, m.size).fat), m.nand, DeviceScan(m.nand), m.size,
          NoFault)

WithFile(m, data, filename) == WriteFile(Reload(m), data, filename)

Image1 == WithFile(Blank(FAT_FRAGMENT, 1, 0), <<1>>, N_a).nand

Image2 ==
  WithFile(WithFile(Blank(2 * FAT_FRAGMENT, 6, 1), <<1, 1, 1>>, N_a), <<1>>, N_b).nand

Images == {Image1, Image2}

\* The blocks find_best_fat looks at
FatArea(size) == (size - NUM_FATS)..(size - 1)

\* A FAT block of an empty one-fragment file system, as write_fat_block writes it
Fragment(seqno, fs_type) ==
  fix_fat_checksum(FSBlockWrite(
    [fat |-> BaseEntries(FAT_FRAGMENT),
     entries |-> [i \in 1..MAX_FILES |-> FileEntryDefault],
     fs_type |-> fs_type, seqno |-> seqno, link_block |-> 0, chksum |-> 0]))

BadSum(b) == [b EXCEPT !.chksum = (@ + 1) % U16]

SlotContents ==
  {Unreadable, Fragment(0, "BBFS"), Fragment(1, "BBFS"),
   BadSum(Fragment(2, "BBFS")), Fragment(2, "BBFL")}

\* One-fragment cards with every combination of contents in the FAT area
LoadImages ==
  {[b \in 0..FAT_FRAGMENT - 1 |->
      IF b \in FatArea(FAT_FRAGMENT) THEN s[b] ELSE Erased] :
     s \in [FatArea(FAT_FRAGMENT) -> SlotContents]}

ErasedCard == [b \in 0..FAT_FRAGMENT - 1 |-> Erased]

NoOp == [op |-> "none", a |-> << >>, b |-> << >>, data |-> << >>, flt |-> NoFault,
         res |-> "Ok", log |-> << >>, prefat |-> NoFat, prenand |-> << >>,
         wasinit |-> FALSE, start |-> -1]

\* One 4-byte frame the device sends: the ready signal, the length of a reply
\* (n) or a frame of reply data.  for is the number of the command the device
\* had received when it produced the frame; what, echo and st tell what the
\* data belongs to and, for a status reply, its two words (the first word is
\* 0xFFFFFFFF - echo).
Frame(k, for, what, n, echo, st) ==
  [k |-> k, for |-> for, what |-> what, n |-> n, echo |-> echo, st |-> st]

READY_SIGNAL(for) == Frame("READY", for, "ready", 0, 0, 0)

\* The channel when the device waits for a command: its ready signal is
\* pending.  policy is what the device does with a command that arrives while
\* it waits for data: "ignore" it or "restart" with it.
IdleWire ==
  [inq |-> <<READY_SIGNAL(0)>>, st |-> "Idle", need |-> 0, recvd |-> 0, sent |-> 0,
   policy |-> "restart"]

\* BBPlayer::new: a handle that is not initialised, on a card from images
InitWith(images) ==
  /\ nand \in images
  /\ dev = DeviceScan(nand)
  /\ is_initialised = FALSE
  /\ cardsize = 0
  /\ fat = NoFat
  /\ commits = << >>
  /\ loaded = -1
  /\ last = NoOp
  /\ ops = 0
  /\ wire = IdleWire

Init == InitWith(Images)

Here(flt) == Machine(fat, nand, dev, cardsize, flt)

Record(op, a, b, data, flt, m) ==
  [op |-> op, a |-> a, b |-> b, data |-> data, flt |-> flt,
   res |-> m.err, log |-> m.log, prefat |-> fat, prenand |-> nand,
   wasinit |-> is_initialised, start |-> -1]

\* An operation that is sent to the device although the handle is not
\* initialised
RefusedButSent(op) ==
  /\ ~is_initialised
  /\ last' = [NoOp EXCEPT !.op = op, !.res = "LibUSBError", !.prefat = fat,
                          !.prenand = nand, !.log = <<[c |-> op]>>]
  /\ UNCHANGED <<nand, dev, is_initialised, cardsize, fat, commits, loaded, ops, wire>>

\* check_initialised!: the operation is not run on a handle that is not
\* initialised; its arguments are not looked at
Refused(op) ==
  /\ ~is_initialised
  /\ last' = [NoOp EXCEPT !.op = op, !.res = "NoConsole", !.prefat = fat,
                          !.prenand = nand]
  /\ UNCHANGED <<nand, dev, is_initialised, cardsize, fat, commits, loaded, ops, wire>>

\* A file operation run on an initialised handle.  A panic unwinds the caller:
\* the handle is dropped, and Drop closes the connection.
Ran(op, a, b, data, flt, m) ==
  /\ is_initialised
  /\ ops < MaxOps
  /\ last' = Record(op, a, b, data, flt, m)
  /\ fat' = m.fat
  /\ nand' = m.nand
  /\ dev' = m.dev
  /\ commits' = commits \o m.commits
  /\ ops' = ops + 1
  /\ is_initialised' = (m.err # "Panic")
  /\ UNCHANGED <<cardsize, loaded, wire>>

\* An operation on an initialised handle that changes neither the handle nor
\* the card: the commands it sends, its result and what it returns
Asked(op, a, ok, log, out) ==
  /\ is_initialised
  /\ last' = [NoOp EXCEPT !.op = op, !.a = a, !.data = out, !.log = log,
                          !.res = IF ok THEN "Ok" ELSE "LibUSBError",
                          !.prefat = fat, !.prenand = nand, !.wasinit = TRUE]
  /\ UNCHANGED <<nand, dev, is_initialised, cardsize, fat, commits, loaded, ops, wire>>

\* BBPlayer::Init: SetSeqNo, GetNumBlocks, load the FAT, InitFS, delete temp.tmp
\* and commit; is_initialised is set when all of them succeeded.
\*   seq   the device's reply to SetSeqNo (the source does not look at it)
\*   t     the step at which the transport fails, "none" when it does not
InitOp(seq, t, flt) ==
  /\ ops < MaxOps
  /\ \E size \in {Cardinality(DOMAIN nand)} :
     \E r \in {read_fat(nand, size)} :
     \E m0 \in {Machine(IF r.r = "Ok" THEN ToFat(r.fat) ELSE fat, nand, dev, size,
                         flt)} :
     \E m \in {IF t # "none" THEN Fail(Here(flt), "LibUSBError")
                ELSE IF r.r # "Ok" THEN Fail(m0, r.r)
                ELSE DeleteFile(init_fs(m0), TEMP_TMP)} :
        /\ last' = [Record("Init", << >>, << >>, << >>, flt, m) EXCEPT
                      !.log = <<[c |-> "SetSeqNo", reply |-> seq]>> \o
                              (IF t = "set_seqno" THEN << >>
                               ELSE <<[c |-> "GetNumBlocks"]>>) \o @,
                      !.start = IF t = "none" /\ Len(r.fat.addrs) > 0
                                  THEN r.fat.addrs[1] ELSE -1]
        /\ is_initialised' = (is_initialised \/ m.err = "Ok")
        /\ cardsize' = IF t = "none" THEN size ELSE cardsize
        /\ fat' = m.fat
        /\ nand' = m.nand
        /\ dev' = m.dev
        /\ commits' = IF t = "none" /\ r.r = "Ok" THEN m.commits ELSE commits
        /\ loaded' = IF t = "none" /\ r.r = "Ok" THEN r.fat.seqno ELSE loaded
        /\ ops' = ops + 1
        /\ UNCHANGED wire

\* BBPlayer::Close
CloseOp ==
  \/ Refused("Close")
  \/ \E ok \in BOOLEAN :
       /\ is_initialised
       /\ is_initialised' = ~ok
       /\ last' = [NoOp EXCEPT !.op = "Close", !.prefat = fat, !.prenand = nand,
                               !.wasinit = TRUE,
                               !.log = <<[c |-> "Close"]>>,
                               !.res = IF ok THEN "Ok" ELSE "LibUSBError"]
       /\ UNCHANGED <<nand, dev, cardsize, fat, commits, loaded, ops, wire>>

WriteFileOp(D, N, F) ==
  \/ Refused("WriteFile")
  \/ \E data \in D, filename \in N, flt \in F :
       Ran("WriteFile", filename, << >>, data, flt,
           WriteFile(Here(flt), data, filename))

DeleteFileOp(N) ==
  \/ Refused("DeleteFile")
  \/ \E filename \in N :
       Ran("DeleteFile", filename, << >>, << >>, NoFault,
           DeleteFile(Here(NoFault), filename))

RenameFileOp(N) ==
  \/ Refused("RenameFile")
  \/ \E from \in N, to \in N :
       Ran("RenameFile", from, to, << >>, NoFault,
           RenameFile(Here(NoFault), from, to))

Next ==
  \/ \E seq \in {-1, 0, 1} : InitOp(seq, "none", NoFault)
  \/ CloseOp
  \/ WriteFileOp(DataSet, Names, Faults)
  \/ DeleteFileOp(Names)
  \/ RenameFileOp(Names)

Spec == Init /\ [][Next]_vars

\* ------------------------------------------------------ loading any FAT area
\* Init on cards whose FAT area holds every combination of block contents
LoadInit == InitWith(LoadImages)

LoadNext == InitOp(0, "none", NoFault)

LoadSpec == LoadInit /\ [][LoadNext]_vars

\* -------------------------------------------------- the public operations
\* BBPlayer::GetBBID
GetBBIDOp ==
  \/ Refused("GetBBID")
  \/ \E ok \in BOOLEAN : Asked("GetBBID", << >>, ok, <<[c |-> "GetBBID"]>>, << >>)

\* BBPlayer::SetLED
SetLEDOp ==
  \/ Refused("SetLED")
  \/ \E ledval \in {0, 1}, ok \in BOOLEAN :
       Asked("SetLED", <<ledval>>, ok, <<[c |-> "SetLED", arg |-> ledval]>>, << >>)

\* BBPlayer::SetTime
SetTimeOp ==
  \/ Refused("SetTime")
  \/ \E ok \in BOOLEAN : Asked("SetTime", << >>, ok, <<[c |-> "SetTime"]>>, << >>)

\* BBPlayer::ListFiles: answered from the loaded FAT
ListFilesOp ==
  \/ Refused("ListFiles")
  \/ Asked("ListFiles", << >>, TRUE, << >>, ListFiles(fat))

\* BBPlayer::ReadFile: one ReadBlockAndSpare per block of the file's chain
ReadFileOp ==
  \/ Refused("ReadFile")
  \/ \E filename \in {N_a, N_b} :
       \E rd \in {ReadFile(fat, nand, filename)} :
         Asked("ReadFile", filename, rd.r = "Ok",
               [i \in 1..bytes_to_blocks(Len(rd.data)) |-> [c |-> "ReadBlockAndSpare"]],
               rd.data)

\* BBPlayer::ReadSingleBlock
ReadSingleBlockOp ==
  \/ Refused("ReadSingleBlock")
  \/ \E block_num \in {0, RESERVED_BLOCKS} :
       Asked("ReadSingleBlock", <<block_num>>, ReadOk(nand, block_num),
             <<[c |-> "ReadBlockAndSpare", blk |-> block_num]>>,
             IF ReadOk(nand, block_num) THEN BlockBytes(nand[block_num]) ELSE << >>)

\* BBPlayer::WriteSingleBlock: write_block_spare sends nothing for a block
\* whose spare marks it bad
WriteSingleBlockOp ==
  \/ Refused("WriteSingleBlock")
  \/ \E marked_bad \in BOOLEAN :
       \E m \in {IF marked_bad THEN Here(NoFault)
                 ELSE DevWrite(Here(NoFault), RESERVED_BLOCKS,
                               RawBlock([i \in 1..BLOCK_SIZE |-> 7]), "data")} :
         Ran("WriteSingleBlock", <<RESERVED_BLOCKS>>, << >>, << >>, NoFault, m)

\* BBPlayer::DumpNAND: one ReadBlockAndSpare per block of the card
DumpNANDOp ==
  \/ Refused("DumpNAND")
  \/ \E ok \in BOOLEAN :
       Asked("DumpNAND", << >>, ok,
             [i \in 1..cardsize |-> [c |-> "ReadBlockAndSpare", blk |-> i - 1]], << >>)

SessionInit == InitWith({Image1, ErasedCard})

SessionNext ==
  \/ \E t \in {"none", "set_seqno", "get_num_blocks"} : InitOp(0, t, NoFault)
  \/ CloseOp
  \/ GetBBIDOp
  \/ SetLEDOp
  \/ SetTimeOp
  \/ ListFilesOp
  \/ ReadFileOp
  \/ ReadSingleBlockOp
  \/ WriteSingleBlockOp
  \/ DumpNANDOp
  \/ WriteFileOp({<<1, 1, 1>>}, {N_b}, {NoFault})
  \/ DeleteFileOp({N_a})

SessionSpec == SessionInit /\ [][SessionNext]_vars

\* ---------------------------------------------------------------- claims
\* The blocks of the chain that starts at FAT entry e
RECURSIVE ChainSet(_, _, _)
ChainSet(entries, e, fuel) ==
  IF e.t # "Chain" \/ fuel = 0 \/ e.n + 1 > Len(entries) THEN {}
  ELSE {e.n} \cup ChainSet(entries, entries[e.n + 1], fuel - 1)

\* Some valid directory entry of f holds the name n as set_name stores it
InDirectory(f, n) ==
  \E i \in 1..Len(f.files) :
    /\ f.files[i].valid
    /\ f.files[i].name = set_name(FileEntryDefault, n).name
    /\ f.files[i].ext = set_name(FileEntryDefault, n).ext

\* The file with directory entry f of fat0 is listed in fat1 with the same
\* entry and the same chain, and the blocks of the chain hold the same content
Kept(f, fat0, nand0, fat1, nand1) ==
  /\ \E j \in 1..Len(fat1.files) : fat1.files[j] = f
  /\ \A b \in ChainSet(fat0.entries, f.start, Len(fat0.entries)) :
       /\ b + 1 <= Len(fat1.entries)
       /\ fat1.entries[b + 1] = fat0.entries[b + 1]
       /\ nand1[b] = nand0[b]

\* The last operation sent a WriteBlockAndSpare
Wrote ==
  \E i \in 1..Len(last.log) : last.log[i].c = "WriteBlockAndSpare"

\* C1: when WriteFile(d, n) returned Ok for a name n that no directory entry
\* held before the call, ReadFile(n) returns exactly d and ListFiles reports n
\* with size Len(d).
C1_WriteThenRead ==
  (/\ last.op = "WriteFile"
   /\ last.wasinit
   /\ last.res = "Ok"
   /\ ~InDirectory(last.prefat, last.a))
    => /\ ReadFile(fat, nand, last.a)
            = [r |-> "Ok", found |-> TRUE, data |-> last.data]
       /\ \E i \in 1..Len(ListFiles(fat)) :
            ListFiles(fat)[i] = <<to_lowercase(last.a), Len(last.data)>>

\* C2: when a WriteBlockAndSpare issued by WriteFile failed, a load of the card
\* selects a generation that lists every file of the FAT before the call with
\* its chain, and the blocks of those chains hold what they held before.
C2_FailedWriteKeepsFiles ==
  (/\ last.op = "WriteFile"
   /\ \E i \in 1..Len(last.log) :
        last.log[i].c = "WriteBlockAndSpare" /\ ~last.log[i].ok)
    => \E r \in {read_fat(nand, Cardinality(DOMAIN nand))} :
         /\ r.r = "Ok"
         /\ \A i \in 1..Len(last.prefat.files) :
              last.prefat.files[i].valid
                => Kept(last.prefat.files[i], last.prefat, last.prenand, r.fat, nand)

\* C3: when the device reports a checksum mismatch for temp.tmp, WriteFile
\* returns ChecksumFailed, temp.tmp keeps its name, and a file n of the FAT
\* before the call is still in the committed directory with its chain and its
\* block contents.
C3_ChecksumFailureKeepsOriginal ==
  (/\ last.op = "WriteFile"
   /\ \E i \in 1..Len(last.log) :
        /\ last.log[i].c = "ChksumFile"
        /\ last.log[i].name = TEMP_TMP
        /\ ~last.log[i].ok)
    => /\ last.res = "ChecksumFailed"
       /\ find_file(fat, TEMP_TMP) # 0
       /\ find_file(last.prefat, last.a) # 0
            => \E r \in {read_fat(nand, Cardinality(DOMAIN nand))} :
                 /\ r.r = "Ok"
                 /\ Kept(last.prefat.files[find_file(last.prefat, last.a)],
                         last.prefat, last.prenand, r.fat, nand)

\* C4: every commit of a session writes a seqno strictly greater than the
\* seqno loaded at Init and than the seqno of every earlier commit, and the
\* seqno CardStats returns is that of the last commit.
C4_SeqnoStrictlyIncreases ==
  /\ \A i \in 1..Len(commits) :
       /\ commits[i] > loaded
       /\ \A j \in 1..i - 1 : commits[j] < commits[i]
  /\ (commits # << >> /\ HasFat(fat))
       => CardStats(fat).seqno = commits[Len(commits)]

\* C5: no FAT fragment is written to a block that holds a fragment of the
\* generation that is current on the device at the moment of the write.
C5_CommitSparesCurrent ==
  \A i \in 1..Len(last.log) :
    (last.log[i].c = "WriteBlockAndSpare" /\ last.log[i].what = "fat")
      => ~last.log[i].cur

\* C6: RenameFile with two names that are equal after lower-casing changes
\* nothing in the loaded FAT and sends nothing to the device.
C6_RenameToSelfIsNoOp ==
  (/\ last.op = "RenameFile"
   /\ last.wasinit
   /\ to_lowercase(last.a) = to_lowercase(last.b))
    => /\ fat = last.prefat
       /\ nand = last.prenand
       /\ last.log = << >>

\* C7: a WriteFile(d, n) that follows a successful WriteFile(d, n) writes no
\* block and leaves the loaded FAT as it was.
C7_SecondWriteSkips ==
  [][(/\ last.op = "WriteFile"
      /\ last.wasinit
      /\ last.res = "Ok"
      /\ last'.op = "WriteFile"
      /\ last'.wasinit
      /\ last'.a = last.a
      /\ last'.data = last.data)
       => /\ fat' = fat
          /\ \A i \in 1..Len(last'.log) : last'.log[i].c # "WriteBlockAndSpare"]_vars

\* C8: every ChksumFile request of WriteFile(d, n) carries size = Len(d), and a
\* WriteFile on an existing file that returns Ok without writing has data of
\* the stored file's length.
C8_ChecksumOverDataLength ==
  (last.op = "WriteFile" /\ last.wasinit)
    => /\ \A i \in 1..Len(last.log) :
            last.log[i].c = "ChksumFile" => last.log[i].size = Len(last.data)
       /\ (last.res = "Ok" /\ ~Wrote /\ find_file(last.prefat, last.a) # 0)
            => FileSize(last.prefat.files[find_file(last.prefat, last.a)])
                 = Len(last.data)

\* A block of the FAT area that reads, passes the checksum and has magic BBFS
Qualifies(n, b) ==
  /\ ReadOk(n, b)
  /\ n[b].k = "fs"
  /\ check_fat_checksum(n[b])
  /\ n[b].fs_type = "BBFS"

Qualifying(n) == {b \in FatArea(Cardinality(DOMAIN n)) : Qualifies(n, b)}

\* C9: the load of Init starts at a block of the FAT area that reads, passes
\* the checksum and has magic BBFS, and no such block has a larger seqno; it
\* fails with NoFAT exactly when no block qualifies.
C9_BestFatIsNewestBBFS ==
  (last.op = "Init" /\ last.res # "LibUSBError")
    => /\ (Qualifying(last.prenand) = {}) = (last.res = "NoFAT")
       /\ (Qualifying(last.prenand) = {}) => last.start = -1
       /\ (Qualifying(last.prenand) # {})
            => /\ last.start \in Qualifying(last.prenand)
               /\ \A b \in Qualifying(last.prenand) :
                    last.prenand[b].seqno <= last.prenand[last.start].seqno

\* A load that chose a start although the FAT area also holds a BBFL block
\* with a larger seqno, a block with a bad checksum and an unreadable block
C9_Witness ==
  /\ last.op = "Init"
  /\ last.start # -1
  /\ \E b \in FatArea(Cardinality(DOMAIN last.prenand)) :
       /\ last.prenand[b].k = "fs"
       /\ last.prenand[b].fs_type = "BBFL"
       /\ last.prenand[b].seqno > last.prenand[last.start].seqno
  /\ \E b \in FatArea(Cardinality(DOMAIN last.prenand)) :
       /\ last.prenand[b].k = "fs"
       /\ ~check_fat_checksum(last.prenand[b])
  /\ \E b \in FatArea(Cardinality(DOMAIN last.prenand)) :
       last.prenand[b].k = "bad"

PublicOps ==
  {"GetBBID", "SetLED", "SetTime", "ListFiles", "ReadFile", "WriteFile",
   "DeleteFile", "ReadSingleBlock", "WriteSingleBlock", "DumpNAND", "Close"}

\* C10: a handle starts not initialised; it becomes initialised only by an
\* Init that returns Ok; an Init that returns an error leaves it not
\* initialised; a Close that returns Ok makes it not initialised; on a handle
\* that is not initialised every other public operation returns the error of
\* check_initialised!, sends nothing and changes nothing.
C10_SessionStates ==
  /\ last.op = "none" => ~is_initialised
  /\ (is_initialised /\ ~last.wasinit) => (last.op = "Init" /\ last.res = "Ok")
  /\ (last.op = "Init" /\ ~last.wasinit /\ last.res # "Ok") => ~is_initialised
  /\ (last.op = "Close" /\ last.res = "Ok") => ~is_initialised
  /\ (last.op \in PublicOps /\ ~last.wasinit)
       => /\ last.res = "NoConsole"
          /\ last.log = << >>
          /\ ~is_initialised
          /\ nand = last.prenand
          /\ fat = last.prefat

\* A handle that was initialised and closed refuses DumpNAND
C10_Witness ==
  /\ loaded # -1
  /\ ~is_initialised
  /\ last.op = "DumpNAND"
  /\ last.res = "NoConsole"

\* C11: an Init on a handle that is not initialised, to whose SetSeqNo the
\* device replied 0 or a negative status, returns an error and leaves the
\* handle not initialised.
C11_InitNeedsCard ==
  (/\ last.op = "Init"
   /\ ~last.wasinit
   /\ last.log[1].c = "SetSeqNo"
   /\ last.log[1].reply <= 0)
    => /\ last.res # "Ok"
       /\ ~is_initialised

\* The chain that starts at FAT entry e visits only Chain entries of the
\* table, does not cycle and ends in EndOfChain
RECURSIVE EndsWell(_, _, _)
EndsWell(entries, e, fuel) ==
  IF e.t = "EndOfChain" THEN TRUE
  ELSE IF e.t # "Chain" \/ fuel = 0 \/ e.n + 1 > Len(entries) THEN FALSE
  ELSE EndsWell(entries, entries[e.n + 1], fuel - 1)

\* Every valid directory entry of f starts a well-formed chain
WellChained(f) ==
  \A i \in 1..Len(f.files) :
    f.files[i].valid
      => /\ f.files[i].start.t = "Chain"
         /\ EndsWell(f.entries, f.files[i].start, Len(f.entries))

\* C12: after a WriteFile, DeleteFile or RenameFile, failed or not, on a
\* loaded FAT whose valid entries all start a well-formed chain, every valid
\* entry of the loaded FAT still starts a well-formed chain.
C12_ChainsStayWellFormed ==
  (/\ last.op \in {"WriteFile", "DeleteFile", "RenameFile"}
   /\ last.wasinit
   /\ last.res # "Panic"
   /\ WellChained(last.prefat))
    => WellChained(fat)

\* ------------------------------------------- any FAT content, any data size
\* A one-fragment card formatted with the given FAT entries and no file
Formatted(entries, seqno, slot) ==
  update_fs(Machine([entries |-> entries,
                     files |-> [i \in 1..MAX_FILES |-> FileEntryDefault],
                     seqno |-> seqno - 1,
                     blkno |-> (slot + NUM_FATS - 1) % NUM_FATS],
                    [b \in 0..Len(entries) - 1 |-> Erased], NoFat, Len(entries),
                    NoFault)).nand

\* A card whose FAT marks the first reserved block Free
ImageLow == Formatted([BaseEntries(FAT_FRAGMENT) EXCEPT ![1] = Free], 1, 0)

\* A card whose FAT marks the first block of the FAT area Free
ImageHigh ==
  Formatted([BaseEntries(FAT_FRAGMENT) EXCEPT ![FAT_FRAGMENT - NUM_FATS + 1] = Free],
            1, 0)

\* A card whose FAT marks a block of the data area bad
ImageBad ==
  Formatted([BaseEntries(FAT_FRAGMENT) EXCEPT ![RESERVED_BLOCKS + 2] = BadBlock], 1, 0)

AnyFatImages == {Image1, Image2, ImageLow, ImageHigh, ImageBad}

\* Data of every length from 0 to one byte more than the data area holds
AnyData ==
  {[i \in 1..s |-> 1] :
     s \in 0..(BLOCK_SIZE * (FAT_FRAGMENT - RESERVED_BLOCKS - NUM_FATS) + 1)}

AnyFatInit == InitWith(AnyFatImages)

AnyFatNext ==
  \/ InitOp(1, "none", NoFault)
  \/ WriteFileOp(AnyData, {N_a, N_b, << >>}, {NoFault})
  \/ DeleteFileOp({N_a})
  \/ RenameFileOp({N_a, N_b})

AnyFatSpec == AnyFatInit /\ [][AnyFatNext]_vars

\* Block b lies in the data area of the card
InDataArea(b) == b >= RESERVED_BLOCKS /\ b < cardsize - NUM_FATS

\* C13: after a WriteFile, every FAT entry that was Free before the call and
\* is allocated after it, and every data block the call wrote, lies in the
\* data area; and every FAT fragment is written to the FAT area.
C13_WritesStayInDataArea ==
  (last.op \in {"WriteFile", "DeleteFile", "RenameFile"} /\ last.wasinit)
    => /\ last.op = "WriteFile"
            => \A b \in 0..Len(fat.entries) - 1 :
                 (/\ EntryOf(last.prefat, b) = Free
                  /\ EntryOf(fat, b).t \in {"Chain", "EndOfChain"})
                   => InDataArea(b)
       /\ \A i \in 1..Len(last.log) :
            last.log[i].c = "WriteBlockAndSpare"
              => IF last.log[i].what = "fat"
                   THEN last.log[i].blk \in FatArea(cardsize)
                   ELSE InDataArea(last.log[i].blk)

\* The number of blocks of the file named n in f, 0 when there is none
ExistingBlocks(f, n) ==
  IF find_file(f, n) = 0 THEN 0 ELSE get_file_block_count(f, n)

\* The last WriteFile found a stored file of that name whose checksum the
\* device confirmed
ShortCircuit ==
  /\ find_file(last.prefat, last.a) # 0
  /\ last.log # << >>
  /\ last.log[1].c = "ChksumFile"
  /\ last.log[1].ok

\* C14: a WriteFile that is not short-circuited fails with FileTooBig exactly
\* when the data is longer than BLOCK_SIZE * (Free entries + blocks of the
\* existing file), and then the loaded FAT is unchanged and no block is written.
C14_FileTooBigExactly ==
  (last.op = "WriteFile" /\ last.wasinit /\ ~ShortCircuit)
    => /\ (last.res = "FileTooBig")
            = (Len(last.data) > BLOCK_SIZE * (get_free_block_count(last.prefat)
                                              + ExistingBlocks(last.prefat, last.a)))
       /\ last.res = "FileTooBig" => (fat = last.prefat /\ ~Wrote)

\* ------------------------------------------------------- FAT block checksums
\* The card n with the last fragment of its current generation replaced
LastFragment(n) ==
  Let(find_best_fat(n, Cardinality(DOMAIN n)).fat.addrs, LAMBDA a : a[Len(a)])

WithLastFragment(n, F(_)) ==
  Let(LastFragment(n), LAMBDA b : [n EXCEPT ![b] = F(n[b])])

FatImages ==
  {Image1, Image2, WithLastFragment(Image1, BadSum), WithLastFragment(Image2, BadSum),
   WithLastFragment(Image2, LAMBDA b : Unreadable),
   WithLastFragment(Image2, LAMBDA b : Erased)}

\* BBPlayer::DumpCurrentFS
DumpCurrentFSOp ==
  \/ Refused("DumpCurrentFS")
  \/ Asked("DumpCurrentFS", << >>, TRUE, << >>, DumpCurrentFS(fat))

FatInit == InitWith(FatImages)

FatNext ==
  \/ InitOp(1, "none", NoFault)
  \/ DumpCurrentFSOp
  \/ WriteFileOp({<<1>>, <<1, 1, 1>>}, {N_a, N_b}, {NoFault})
  \/ DeleteFileOp({N_a, N_b})

FatSpec == FatInit /\ [][FatNext]_vars

\* The serialised FS blocks on the card, each with its stored checksum and
\* with every other value of the last word tried
Buffers ==
  UNION {{nand[b], [nand[b] EXCEPT !.chksum = 0],
          [nand[b] EXCEPT !.chksum = U16 - 1]} :
           b \in {x \in DOMAIN nand : nand[x].k = "fs"}}

\* C15: fix_fat_checksum changes only the last word of a block and leaves a
\* block that check_fat_checksum accepts; every FAT fragment the last
\* operation wrote and every block DumpCurrentFS returned passes the check;
\* and a load that follows a link to a block whose sum differs fails with
\* InvalidFATChecksum.
C15_FatChecksum ==
  /\ \A b \in Buffers :
       /\ [fix_fat_checksum(b) EXCEPT !.chksum = b.chksum] = b
       /\ check_fat_checksum(fix_fat_checksum(b))
  /\ \A i \in 1..Len(last.log) :
       (/\ last.log[i].c = "WriteBlockAndSpare"
        /\ last.log[i].what = "fat"
        /\ last.log[i].ok)
         => /\ nand[last.log[i].blk].k = "fs"
            /\ check_fat_checksum(nand[last.log[i].blk])
  /\ last.op = "DumpCurrentFS" /\ last.wasinit
       => /\ last.data # << >>
          /\ \A j \in 1..Len(last.data) : check_fat_checksum(last.data[j])
  /\ (/\ last.op = "Init"
      /\ last.start # -1
      /\ \E b \in {last.prenand[last.start].link_block} :
           /\ b # 0
           /\ ReadOk(last.prenand, b)
           /\ ~read_fat_block_ok(last.prenand, b))
       => last.res = "InvalidFATChecksum"

\* A load that followed the link of a two-fragment FAT to a fragment with a
\* wrong checksum
C15_Witness ==
  /\ last.op = "Init"
  /\ last.res = "InvalidFATChecksum"
  /\ last.start # -1
  /\ last.prenand[last.start].link_block # 0
  /\ \E b \in Buffers : ~check_fat_checksum(b)

\* The number of entries of f that satisfy P
CountEntries(f, P(_)) == Cardinality({i \in 1..Len(f.entries) : P(f.entries[i])})

C17_ListedNamesAreCanonical ==
  (is_initialised /\ HasFat(fat))
    => /\ \A i \in 1..Len(ListFiles(fat)) :
            \E n \in {ListFiles(fat)[i][1]} :
              /\ Len(SplitName(n)) \in 1..NAME_LEN
              /\ Len(SplitExt(n)) <= EXT_LEN
              /\ to_lowercase(n) = n
       /\ \A i \in 1..Len(fat.files) :
            fat.files[i].valid => fat.files[i].name[1] # NUL

\* The valid entries of the loaded FAT that the last operation changed and
\* that hold the name n as set_name stores it
EntriesNamed(n) ==
  {i \in 1..Len(fat.files) :
     /\ fat.files[i].valid
     /\ fat.files[i] # last.prefat.files[i]
     /\ fat.files[i].name = set_name(FileEntryDefault, n).name
     /\ fat.files[i].ext = set_name(FileEntryDefault, n).ext}

\* C18: the directory entry a WriteFile of s bytes creates - under the file's
\* name when the call returned Ok, under temp.tmp when it failed after
\* creating it - has size = ceil(s / BLOCK_SIZE) * BLOCK_SIZE and pad = size - s
\* with 0 <= pad < BLOCK_SIZE, and its chain has size / BLOCK_SIZE blocks.
C18_SizeAndPad ==
  (last.op = "WriteFile" /\ last.wasinit /\ last.res # "Panic" /\ fat # last.prefat)
    => /\ last.res = "Ok" => EntriesNamed(last.a) # {}
       /\ \A i \in EntriesNamed(IF last.res = "Ok" THEN last.a ELSE TEMP_TMP) :
            \E e \in {fat.files[i]}, s \in {Len(last.data)} :
              /\ e.size = ((s + BLOCK_SIZE - 1) \div BLOCK_SIZE) * BLOCK_SIZE
              /\ e.pad = e.size - s
              /\ e.pad >= 0 /\ e.pad < BLOCK_SIZE
              /\ Cardinality(ChainSet(fat.entries, e.start, Len(fat.entries)))
                   = e.size \div BLOCK_SIZE

\* ------------------------------------------------------------ RDB packets
\* enum RDBCommand: the discriminant of each command
RDBCommand ==
  [DevicePrint |-> 1, DeviceFault |-> 2, DeviceLogCT |-> 3, DeviceLog |-> 4,
   DeviceReadyForData |-> 5, DeviceDataCT |-> 6, DeviceData |-> 7,
   DeviceDebug |-> 8, DeviceRamRom |-> 9, DeviceDebugDone |-> 10,
   DeviceDebugReady |-> 11, DeviceKDebug |-> 12, DeviceProfData |-> 22,
   DeviceDataB |-> 23, DeviceSync |-> 25,
   HostLogDone |-> 13, HostDebug |-> 14, HostDebugCT |-> 15, HostData |-> 16,
   HostDataDone |-> 17, HostReqRamRom |-> 18, HostFreeRamRom |-> 19,
   HostKDebug |-> 20, HostProfSignal |-> 21, HostDataB |-> 24,
   HostSyncDone |-> 26, HostDebugDone |-> 27]

\* impl TryFrom<u8> for RDBCommand: the arm of each value, "Err" for the rest
try_from(value) ==
  LET arms == <<"DevicePrint", "DeviceFault", "DeviceLogCT", "DeviceLog",
                "DeviceReadyForData", "DeviceDataCT", "DeviceData", "DeviceDebug",
                "DeviceRamRom", "DeviceDebugDone", "DeviceDebugReady",
                "DeviceKDebug", "DeviceProfData", "DeviceDataB", "DeviceSync",
                "HostLogDone", "HostDebug", "HostDebugCT", "HostData",
                "HostDataDone", "HostReqRamRom", "HostFreeRamRom", "HostKDebug",
                "HostProfSignal", "HostDataB", "HostSyncDone", "HostDebugDone">>
  IN IF value \in 1..Len(arms) THEN arms[value] ELSE "Err"

\* encode_rdb_hdr, for len < 4 (the or of the shifted command and len is a sum)
encode_rdb_hdr(cmd, len) == ((RDBCommand[cmd] * 4) % 256) + len

\* decode_rdb_cmd_len: [r, cmd, len]
decode_rdb_cmd_len(byte) ==
  Let(try_from(byte \div 4), LAMBDA c :
    IF c = "Err" THEN [r |-> "RDBUnknown", cmd |-> c, len |-> 0]
    ELSE [r |-> "Ok", cmd |-> c, len |-> byte % 4])

\* A header byte is encoded
EncodeOp ==
  \E cmd \in DOMAIN RDBCommand, len \in 0..3 :
    /\ last' = [NoOp EXCEPT !.op = "encode_rdb_hdr", !.a = <<cmd, len>>,
                            !.data = <<encode_rdb_hdr(cmd, len)>>]
    /\ UNCHANGED <<nand, dev, is_initialised, cardsize, fat, commits, loaded, ops, wire>>

\* A header byte is decoded
DecodeOp ==
  \E byte \in 0..255 :
    \E d \in {decode_rdb_cmd_len(byte)} :
      /\ last' = [NoOp EXCEPT !.op = "decode_rdb_cmd_len", !.a = <<byte>>,
                              !.res = d.r, !.data = <<d.cmd, d.len>>]
      /\ UNCHANGED <<nand, dev, is_initialised, cardsize, fat, commits, loaded, ops, wire>>

\* C19: the tags have the values of the specification; decoding the header
\* byte of a command c and a length l of 0..3 gives back c and l; and a header
\* byte whose tag is no command's value is rejected with RDBUnknown.
C19_HeaderRoundTrip ==
  /\ RDBCommand.HostLogDone = 13 /\ RDBCommand.HostData = 16
  /\ RDBCommand.DeviceProfData = 22 /\ RDBCommand.DeviceDataB = 23
  /\ RDBCommand.HostDataB = 24 /\ RDBCommand.DeviceSync = 25
  /\ RDBCommand.HostDebugDone = 27
  /\ last.op = "decode_rdb_cmd_len"
       => /\ \A c \in DOMAIN RDBCommand, l \in 0..3 :
               last.a = <<encode_rdb_hdr(c, l)>>
                 => (last.res = "Ok" /\ last.data = <<c, l>>)
          /\ (\A c \in DOMAIN RDBCommand : RDBCommand[c] # last.a[1] \div 4)
               => last.res = "RDBUnknown"

\* The concatenation of the sequences of ss
RECURSIVE Flatten(_)
Flatten(ss) == IF ss = << >> THEN << >> ELSE ss[1] \o Flatten(Tail(ss))

\* The number of payload bytes send_rdb_data puts in one bulk transfer
\* (constants::RDB_BLOCKS_PER_CHUNK)
RDB_BLOCKS_PER_CHUNK == 80

\* encode_rdb_packet: the header byte followed by the data (len < 4 is asserted)
encode_rdb_packet(cmd, data) == <<encode_rdb_hdr(cmd, Len(data))>> \o data

\* send_rdb_data: the bulk transfers it makes, each as its sequence of packets
send_rdb_data(cmd, data) ==
  Let(Chunks(data, RDB_BLOCKS_PER_CHUNK), LAMBDA chunks :
    [j \in 1..Len(chunks) |->
       Let(Chunks(chunks[j], 3), LAMBDA bl :
         [k \in 1..Len(bl) |-> encode_rdb_packet(cmd, bl[k])])])

\* A payload of every length up to a little more than one bulk transfer is sent
SendOp ==
  \E cmd \in {"HostData", "HostDataDone"}, n \in 0..(RDB_BLOCKS_PER_CHUNK + 4) :
    \E data \in {[i \in 1..n |-> i]} :
      /\ last' = [NoOp EXCEPT !.op = "send_rdb_data", !.a = <<cmd, n>>, !.data = data,
                              !.log = send_rdb_data(cmd, data)]
      /\ UNCHANGED <<nand, dev, is_initialised, cardsize, fat, commits, loaded, ops, wire>>

RdbInit == InitWith({ErasedCard})

RdbNext == EncodeOp \/ DecodeOp \/ SendOp

RdbSpec == RdbInit /\ [][RdbNext]_vars

\* C20: every packet send_rdb_data puts on the wire has 4 bytes, a header
\* with the command and a length of 0..3 followed by that many payload bytes
\* and padding; a payload of n bytes gives ceil(n / 3) packets, all with 3
\* payload bytes except possibly the last; and no bulk transfer holds more
\* than 80 packets.
C20_ShortPacketsAreFourBytes ==
  last.op = "send_rdb_data"
    => \E pk \in {Flatten(last.log)}, n \in {Len(last.data)} :
         /\ \A i \in 1..Len(pk) :
              /\ Len(pk[i]) = 4
              /\ pk[i][1] \div 4 = RDBCommand[last.a[1]]
              /\ i < Len(pk) => pk[i][1] % 4 = 3
         /\ Len(pk) = (n + 2) \div 3
         /\ \A j \in 1..Len(last.log) : Len(last.log[j]) <= 80

\* ------------------------------------------------- the command channel
\* enum Command: the command ids
Command ==
  [WriteBlockAndSpare |-> 16, ReadBlockAndSpare |-> 17, InitFS |-> 18,
   GetNumBlocks |-> 21, SetSeqNo |-> 22, SetLED |-> 29, SetTime |-> 30,
   GetBBID |-> 31]

SPARE_SIZE == 16

\* A block is transferred in pieces of BLOCK_CHUNK_SIZE bytes (a quarter of a
\* block in the source, half a block here)
BLOCK_CHUNK_SIZE == (BLOCK_SIZE + 1) \div 2

\* The number of 4-byte frames that carry len bytes, 3 bytes to a frame
FramesOf(len) == (len + 2) \div 3

\* An exchange works on the channel w, threaded through its steps:
\*   inq    the frames the device has sent and the host has not read, in order
\*   st     what the device waits for: a command ("Idle"), the data of a block
\*          write ("AwaitBlock", need bytes missing) or its spare ("AwaitSpare")
\*   recvd  the number of commands the device has received
\*   sent   the number of commands the host has sent
\*   policy what the device does with a command that arrives while it waits
\*          for data
\*   rep    the two words the device answers a command with: [echo, st]; for
\*          a block read also byte 5 of the spare of the block: spare5
\*   flt    the injected transport faults: the receive with number flt.late
\*          times out, its frames arriving later; the send with number
\*          flt.sendfail fails; the piece with number flt.short of the block
\*          the first send of the exchange asks for lacks its last frame
\*   rc, sc the number of receives and sends of this exchange so far
\*   out    what the host has put on the wire in this exchange
\*   seen   the kind of the frame the host has read last in this exchange
\*   got    the replies the host has taken in this exchange
\*   tries  the attempts a block read or write has started
\*   val    the value of the last step; err "Ok" until a step fails
Channel(wr, rep, flt) ==
  [inq |-> wr.inq, st |-> wr.st, need |-> wr.need, recvd |-> wr.recvd,
   sent |-> wr.sent, policy |-> wr.policy, rep |-> rep, flt |-> flt, rc |-> 0,
   sc |-> 0, out |-> << >>, seen |-> "none", got |-> << >>, tries |-> 0,
   val |-> << >>, err |-> "Ok"]

\* The reply to a command: a length frame and the frames of the data
ReplyFrames(for, what, len, echo, st) ==
  <<Frame("LEN", for, what, len, 0, 0)>>
    \o [i \in 1..FramesOf(len) |-> Frame("DATA", for, what, 0, echo, st)]

\* The frames of a reply, without the last of them when the reply is short
Shortened(frames, short) ==
  IF short THEN SubSeq(frames, 1, Len(frames) - 1) ELSE frames

\* The frame of a spare that carries its byte 5 (3 bytes to a frame)
SPARE_STATUS_FRAME == (5 \div 3) + 1

\* The reply that carries a spare whose byte 5 is b5: st of the frame that
\* holds byte 5 is that byte
SpareFrames(for, b5) ==
  <<Frame("LEN", for, "spare", SPARE_SIZE, 0, 0)>>
    \o [i \in 1..FramesOf(SPARE_SIZE) |->
         Frame("DATA", for, "spare", 0, 0, IF i = SPARE_STATUS_FRAME THEN b5 ELSE 0)]

\* The value of flt.short that shortens the spare
SpareShort == (BLOCK_SIZE \div BLOCK_CHUNK_SIZE) + 1

\* The device answers command number for with its status; a read with status 0
\* is followed by the block, piece by piece, and the spare; then the device is
\* ready for the next command.
DeviceAnswer(w, msg, for) ==
  [w EXCEPT
     !.recvd = for,
     !.st = IF msg.id = Command.WriteBlockAndSpare THEN "AwaitBlock" ELSE "Idle",
     !.need = IF msg.id = Command.WriteBlockAndSpare THEN BLOCK_SIZE ELSE 0,
     !.inq = @ \o
       (IF msg.id = Command.WriteBlockAndSpare THEN <<READY_SIGNAL(for)>>
        ELSE ReplyFrames(for, "status", 8, w.rep.echo, w.rep.st)
          \o (IF msg.id = Command.ReadBlockAndSpare /\ w.rep.st = 0
                THEN Flatten([i \in 1..(BLOCK_SIZE \div BLOCK_CHUNK_SIZE) |->
                                Shortened(ReplyFrames(for, "block", BLOCK_CHUNK_SIZE, 0, 0),
                                          w.sc = 1 /\ w.flt.short = i)])
                       \o Shortened(SpareFrames(for, w.rep.spare5),
                                    w.sc = 1 /\ w.flt.short = SpareShort)
                ELSE << >>)
          \o <<READY_SIGNAL(for)>>)]

\* What the device does with one message of the host
Device(w, msg) ==
  IF msg.k = "cmd"
    THEN IF w.st = "Idle" \/ w.policy = "restart"
           THEN DeviceAnswer(w, msg, w.recvd + 1)
           ELSE w
  ELSE IF msg.k = "chunk" /\ w.st = "AwaitBlock"
    THEN IF w.need > msg.n THEN [w EXCEPT !.need = @ - msg.n]
         ELSE [w EXCEPT !.need = 0, !.st = "AwaitSpare",
                        !.inq = Append(@, READY_SIGNAL(w.recvd))]
  ELSE IF msg.k = "spare" /\ w.st = "AwaitSpare"
    THEN [w EXCEPT !.st = "Idle",
                   !.inq = @ \o ReplyFrames(w.recvd, "status", 8, w.rep.echo, w.rep.st)
                             \o <<READY_SIGNAL(w.recvd)>>]
  ELSE w

\* bulk_transfer_receive of len frames: the frames stay in the channel when
\* the transfer times out
bulk_transfer_receive(w, len) ==
  IF w.err # "Ok" THEN w
  ELSE IF len = 0 THEN [w EXCEPT !.val = << >>]
  ELSE IF \/ w.rc + 1 = w.flt.late
          \/ (w.flt.stall /\ w.rc + 1 > w.flt.late)
          \/ Len(w.inq) < len
    THEN [w EXCEPT !.rc = @ + 1, !.err = "Timeout"]
  ELSE [w EXCEPT !.rc = @ + 1,
                 !.seen = w.inq[len].k,
                 !.val = SubSeq(w.inq, 1, len),
                 !.inq = SubSeq(w.inq, len + 1, Len(w.inq))]

\* bulk_transfer_send: the message reaches the device unless the transfer fails
bulk_transfer_send(w, msg) ==
  IF w.err # "Ok" THEN w
  ELSE IF w.sc + 1 = w.flt.sendfail
    THEN [w EXCEPT !.sc = @ + 1, !.err = "LibUSBError"]
  ELSE Device([w EXCEPT !.sc = @ + 1,
                        !.sent = IF msg.k = "cmd" THEN @ + 1 ELSE @,
                        !.out = Append(@, [msg EXCEPT !.after = w.seen])],
              msg)

\* A message of the host: a command, or n bytes of data; after is filled in
\* with the kind of the frame the host had read last
Msg(k, id, arg, n) == [k |-> k, id |-> id, arg |-> arg, n |-> n, after |-> "none"]

\* is_ready: val is TRUE when the 4 bytes read are the ready signal
is_ready(w) ==
  Let(bulk_transfer_receive(w, 1), LAMBDA r :
    IF r.err # "Ok" THEN r ELSE [r EXCEPT !.val = (r.val[1].k = "READY")])

\* wait_ready without the loop: one frame is read, whatever it is
wait_readyOnce(w) == is_ready(w)

\* wait_ready: frames are read until one is the ready signal
RECURSIVE wait_ready(_)
wait_ready(w) ==
  Let(is_ready(w), LAMBDA r :
    IF r.err # "Ok" \/ r.val THEN r ELSE wait_ready(r))

send_piecemeal_data(w, msg) == bulk_transfer_send(w, msg)

send_command(w, command, arg) ==
  send_piecemeal_data(wait_ready(w), Msg("cmd", command, arg, 8))

\* receive_data_length: a ready signal is skipped, any other frame than a
\* length is an error
RECURSIVE receive_data_length(_)
receive_data_length(w) ==
  Let(bulk_transfer_receive(w, 1), LAMBDA r :
    IF r.err # "Ok" THEN r
    ELSE IF r.val[1].k = "READY" THEN receive_data_length(r)
    ELSE IF r.val[1].k # "LEN" THEN Fail(r, "IncorrectDataLengthReply")
    ELSE [r EXCEPT !.val = r.val[1].n])

\* receive_data, the reads: one packet at a time (a packet is one frame here,
\* 32 frames in the source) until the buffer is full; a read of 0 bytes ends it
RECURSIVE ReceivePackets(_, _, _)
ReceivePackets(w, left, buf) ==
  IF w.err # "Ok" THEN w
  ELSE IF left = 0 THEN [bulk_transfer_receive(w, 0) EXCEPT !.val = buf]
  ELSE Let(bulk_transfer_receive(w, 1), LAMBDA r :
         ReceivePackets(r, left - 1, buf \o r.val))

\* receive_data: read the frames, acknowledge, decode
receive_data(w, expected_len) ==
  Let(ReceivePackets(w, FramesOf(expected_len), << >>), LAMBDA r :
  Let(bulk_transfer_send(r, Msg("ack", 0, 0, 1)), LAMBDA a :
    IF a.err # "Ok" THEN a
    ELSE IF \E i \in 1..Len(r.val) : r.val[i].k # "DATA"
      THEN Fail(a, "UnexpectedPiecemealChunkType")
    ELSE [a EXCEPT !.val = r.val]))

\* receive_reply
receive_reply(w, expected_len) ==
  Let(receive_data_length(w), LAMBDA r :
    IF r.err # "Ok" THEN r
    ELSE IF r.val = 0 \/ r.val > expected_len THEN Fail(r, "InvalidReplyLength")
    ELSE receive_data(r, r.val))

\* The reply just received is taken as the status, block data or spare of the
\* command the host sent last
Taken(w, as) ==
  IF w.err # "Ok" THEN w
  ELSE [w EXCEPT !.got = Append(@, [as |-> as, cmd |-> w.sent, at |-> Len(w.out),
                                    for |-> {w.val[i].for : i \in 1..Len(w.val)},
                                    what |-> {w.val[i].what : i \in 1..Len(w.val)},
                                    echo |-> w.val[1].echo,
                                    st |-> w.val[1].st,
                                    b5 |-> IF as = "spare"
                                             THEN w.val[SPARE_STATUS_FRAME].st
                                             ELSE 255])]

\* command_ret: the second word of the reply
command_ret(buf) == buf[1].st

\* The attempts read_block_spare and write_block_spare make
ATTEMPTS == 5

\* request_block_read
request_block_read(w, command, block_num) ==
  Let(Taken(receive_reply(send_command(w, command, block_num), 8), "status"),
      LAMBDA r :
    IF r.err # "Ok" THEN r
    ELSE IF command_ret(r.val) < 0 THEN Fail(r, "Command")
    ELSE r)

\* get_block: the pieces of the block
RECURSIVE get_block(_, _)
get_block(w, left) ==
  IF w.err # "Ok" \/ left = 0 THEN w
  ELSE get_block(Taken(receive_reply(w, BLOCK_CHUNK_SIZE), "block"), left - 1)

get_spare(w) == Taken(receive_reply(w, SPARE_SIZE), "spare")

\* try_continue!: the error is printed and the next attempt starts
Continue(w) == [w EXCEPT !.err = "Ok"]

\* read_block_spare: an error of the request is returned, an error of the
\* transfer of the block or the spare starts the next attempt
RECURSIVE read_block_spare(_, _, _)
read_block_spare(w, block_num, attempt) ==
  IF attempt >= ATTEMPTS THEN Fail(w, "ReadBlock")
  ELSE Let(request_block_read([w EXCEPT !.tries = @ + 1],
                              Command.ReadBlockAndSpare, block_num), LAMBDA q :
         IF q.err # "Ok" THEN q
         ELSE Let(get_spare(get_block(q, BLOCK_SIZE \div BLOCK_CHUNK_SIZE)),
                  LAMBDA s :
                IF s.err # "Ok" THEN read_block_spare(Continue(s), block_num, attempt + 1)
                ELSE s))

\* request_block_write
request_block_write(w, command, block_num) ==
  wait_ready(send_command(w, command, block_num))

\* send_chunked_data: one transfer per piece of the data
RECURSIVE send_chunked_data(_, _)
send_chunked_data(w, left) ==
  IF w.err # "Ok" \/ left <= 0 THEN w
  ELSE send_chunked_data(
         bulk_transfer_send(w, Msg("chunk", 0, 0,
                                   IF left < BLOCK_CHUNK_SIZE THEN left
                                   ELSE BLOCK_CHUNK_SIZE)),
         left - BLOCK_CHUNK_SIZE)

send_block(w) == send_chunked_data(w, BLOCK_SIZE)

send_spare(w) == send_piecemeal_data(wait_ready(w), Msg("spare", 0, 0, SPARE_SIZE))

check_block_write(w) ==
  Let(Taken(receive_reply(w, 8), "status"), LAMBDA r :
    IF r.err # "Ok" THEN r
    ELSE IF command_ret(r.val) < 0 THEN Fail(r, "CheckBlockWrite")
    ELSE r)

\* write_block_spare without the test of the spare
RECURSIVE write_block_spareUnmarked(_, _, _, _)
write_block_spareUnmarked(w, marked_bad, block_num, attempt) ==
  IF attempt >= ATTEMPTS THEN Fail(w, "WriteBlock")
  ELSE Let(check_block_write(send_spare(send_block(
             request_block_write([w EXCEPT !.tries = @ + 1],
                                 Command.WriteBlockAndSpare, block_num)))),
           LAMBDA s :
         IF s.err # "Ok"
           THEN write_block_spareUnmarked(Continue(s), marked_bad, block_num, attempt + 1)
         ELSE s)

\* write_block_spare: nothing is sent for a block whose spare marks it bad;
\* an error of any step starts the next attempt
RECURSIVE write_block_spare(_, _, _, _)
write_block_spare(w, marked_bad, block_num, attempt) ==
  IF marked_bad THEN w
  ELSE IF attempt >= ATTEMPTS THEN Fail(w, "WriteBlock")
  ELSE Let(check_block_write(send_spare(send_block(
             request_block_write([w EXCEPT !.tries = @ + 1],
                                 Command.WriteBlockAndSpare, block_num)))),
           LAMBDA s :
         IF s.err # "Ok"
           THEN write_block_spare(Continue(s), marked_bad, block_num, attempt + 1)
         ELSE s)

\* init_fs, get_bbid, set_time of commands.rs: a command whose reply carries a
\* status; set_time then sends the second half of the time
status_command(w, name) ==
  Let(Taken(receive_reply(send_command(w, Command[name], 0), 8), "status"),
      LAMBDA r :
    IF r.err # "Ok" THEN r
    ELSE IF command_ret(r.val) < 0 THEN Fail(r, name)
    ELSE IF name = "SetTime" THEN send_piecemeal_data(r, Msg("time", 0, 0, 4))
    ELSE r)

\* CardError::from_i32
from_i32(error) ==
  CASE error = -1 -> "NotPresent"
    [] error = -2 -> "Failure"
    [] error = -3 -> "Invalid"
    [] error = -4 -> "Changed"
    [] error = -5 -> "FSNotInit"
    [] error = -6 -> "FileExists"
    [] error = -7 -> "CardFull"
    [] error = -8 -> "NotFound"
    [] error = -9 -> "StateInvalid"
    [] error = -10 -> "StateLimit"
    [] OTHER -> "Unknown"

\* init_fs of fs.rs, given the status word of the response
init_fs_status(status) == IF status # 0 THEN from_i32(status) ELSE "Ok"

\* The size of a block packet's payload (constants::RDB_BLOCK_SIZE)
RDB_BLOCK_SIZE == 254

\* encode_rdb_block_packet
encode_rdb_block_packet(cmd, data) == <<encode_rdb_hdr(cmd, 0), Len(data)>> \o data

\* send_rdb_block_data: the bulk transfers it makes, each as its block packets
send_rdb_block_data(data) ==
  Let(Chunks(data, RDB_BLOCK_SIZE * RDB_BLOCKS_PER_CHUNK), LAMBDA chunks :
    [j \in 1..Len(chunks) |->
       Let(Chunks(chunks[j], RDB_BLOCK_SIZE), LAMBDA bl :
         [k \in 1..Len(bl) |-> encode_rdb_block_packet("HostDataB", bl[k])])])

\* check_player_ready, given the header byte of the packet that arrives (-1
\* when none does): [r, ready]
check_player_ready(hdr) ==
  IF hdr = -1 THEN [r |-> "Timeout", ready |-> FALSE]
  ELSE Let(decode_rdb_cmd_len(hdr), LAMBDA d :
         [r |-> d.r, ready |-> d.r = "Ok" /\ d.cmd = "DeviceReadyForData"])

\* write_data: [r, sent]; the value of check_player_ready is dropped, only its
\* error is returned
write_data(hdr, cmd, data) ==
  IF check_player_ready(hdr).r # "Ok"
    THEN [r |-> check_player_ready(hdr).r, sent |-> << >>]
  ELSE IF Len(data) > 16 /\ cmd = "HostData"
    THEN [r |-> "Ok", sent |-> send_rdb_block_data(data)]
  ELSE [r |-> "Ok", sent |-> send_rdb_data(cmd, data)]

\* ------------------------------------------------ exchanges on the channel
\* The number of the last receive of an exchange that a fault delays
MaxLate == 10

\* The exchanges of a run
MaxExchanges == 2

\* The words the device answers with: echo is the command id that the first
\* word complements, st the status
Replies(id) ==
  {[echo |-> id, st |-> 0], [echo |-> id, st |-> -2], [echo |-> id, st |-> -11],
   [echo |-> id, st |-> 1], [echo |-> 0, st |-> 0]}

NoWireFault == [late |-> 0, stall |-> FALSE, sendfail |-> 0, short |-> 0]

\* One fault: the receive with number late times out (with stall, every
\* receive from that one on), the send with number sendfail fails, or a piece
\* of the block read comes short
WireFaults ==
  {NoWireFault}
    \cup {[late |-> k, stall |-> FALSE, sendfail |-> 0, short |-> 0] : k \in 1..MaxLate}
    \cup {[late |-> k, stall |-> TRUE, sendfail |-> 0, short |-> 0] : k \in 1..MaxFail}
    \cup {[late |-> 0, stall |-> FALSE, sendfail |-> k, short |-> 0] : k \in 1..MaxFail}
    \cup {[late |-> 0, stall |-> FALSE, sendfail |-> 0, short |-> k] : k \in 1..SpareShort}

\* What an exchange meets: a device that answers well and a transport with at
\* most one fault, or any answer of the device and a transport without fault
Meets(id, F) ==
  {[rep |-> [echo |-> id, st |-> 0], flt |-> f] : f \in F}
    \cup {[rep |-> r, flt |-> NoWireFault] : r \in Replies(id)}

\* The exchange op with arguments a has ended in w; last.b keeps the fault and
\* the frames that were pending before the exchange
Exchanged(op, a, w) ==
  /\ ops < MaxExchanges
  /\ ops' = ops + 1
  /\ last' = [NoOp EXCEPT !.op = op, !.a = a,
                          !.b = <<w.flt.late, w.flt.stall, w.flt.sendfail, wire.inq, w.flt.short>>,
                          !.res = w.err, !.log = w.out, !.data = w.got,
                          !.start = w.tries]
  /\ wire' = [inq |-> w.inq, st |-> w.st, need |-> w.need, recvd |-> w.recvd,
              sent |-> w.sent, policy |-> w.policy]
  /\ UNCHANGED <<nand, dev, is_initialised, cardsize, fat, commits, loaded>>

\* Byte 5 of the spare of the block that is read: a good block, a block with
\* one bit in error, and blocks marked bad
SpareStatus == {255, 254, 252, 0}

\* A call of read_block_spare
ReadBlockSpareOp ==
  \E x \in Meets(Command.ReadBlockAndSpare, WireFaults) :
    \E spare5 \in (IF x.flt = NoWireFault /\ x.rep.st = 0 THEN SpareStatus ELSE {255}) :
      Exchanged("read_block_spare",
                <<Command.ReadBlockAndSpare, x.rep.echo, x.rep.st, spare5>>,
                read_block_spare(Channel(wire, [echo |-> x.rep.echo, st |-> x.rep.st,
                                                spare5 |-> spare5], x.flt),
                                 RESERVED_BLOCKS, 0))

\* A call of write_block_spare
WriteBlockSpareOp ==
  \E x \in Meets(Command.WriteBlockAndSpare, WireFaults), marked_bad \in BOOLEAN :
    Exchanged("write_block_spare",
              <<Command.WriteBlockAndSpare, x.rep.echo, x.rep.st, marked_bad>>,
              write_block_spare(Channel(wire, x.rep, x.flt), marked_bad,
                                RESERVED_BLOCKS, 0))

\* A call of init_fs, get_bbid or set_time of commands.rs
StatusCommandOp ==
  \E name \in {"InitFS", "GetBBID", "SetTime"} :
    \E x \in Meets(Command[name], {NoWireFault,
                                   [late |-> 2, stall |-> FALSE, sendfail |-> 0, short |-> 0],
                                   [late |-> 0, stall |-> FALSE, sendfail |-> 1, short |-> 0]}) :
      Exchanged(name, <<Command[name], x.rep.echo, x.rep.st>>,
                status_command(Channel(wire, x.rep, x.flt), name))

\* A call of init_fs of fs.rs whose command got the status word st
FsInitOp ==
  \E st \in -11..1 :
    /\ ops < MaxExchanges
    /\ ops' = ops + 1
    /\ last' = [NoOp EXCEPT !.op = "fs::init_fs",
                            !.a = <<Command.InitFS, Command.InitFS, st>>,
                            !.res = init_fs_status(st)]
    /\ UNCHANGED <<nand, dev, is_initialised, cardsize, fat, commits, loaded, wire>>

\* A call of write_data while the packet with header byte hdr arrives, or none
WriteDataOp ==
  \E hdr \in {-1, 0, 20, 23, 28, 31, 92, 255}, cmd \in {"HostData", "HostDataDone"},
     n \in {1, 8, 17} :
    \E r \in {write_data(hdr, cmd, [i \in 1..n |-> i])} :
      /\ ops < MaxExchanges
      /\ ops' = ops + 1
      /\ last' = [NoOp EXCEPT !.op = "write_data", !.a = <<hdr, cmd, n>>,
                              !.res = r.r, !.log = r.sent]
      /\ UNCHANGED <<nand, dev, is_initialised, cardsize, fat, commits, loaded, wire>>

\* An open handle on a device of either kind
WireInit ==
  /\ nand = ErasedCard
  /\ dev = DeviceScan(nand)
  /\ is_initialised = FALSE
  /\ cardsize = 0
  /\ fat = NoFat
  /\ commits = << >>
  /\ loaded = -1
  /\ last = NoOp
  /\ ops = 0
  /\ wire \in {IdleWire, [IdleWire EXCEPT !.policy = "ignore"]}

WireNext ==
  \/ ReadBlockSpareOp
  \/ WriteBlockSpareOp
  \/ StatusCommandOp
  \/ FsInitOp
  \/ WriteDataOp

WireSpec == WireInit /\ [][WireNext]_vars

\* The operations that send a command through send_command
ChannelOps == {"read_block_spare", "write_block_spare", "InitFS", "GetBBID", "SetTime"}

\* C21: write_data sends its payload only when the packet that arrived was
\* DeviceReadyForData, and fails without sending a byte when another packet or
\* none arrived; every command of send_command follows a ready signal read
\* immediately before, and an exchange that finds another frame than the
\* ready signal pending fails and sends nothing.
C21_SendsOnlyAfterReady ==
  /\ last.op = "write_data"
       => \/ /\ last.a[1] # -1
             /\ last.a[1] \div 4 = RDBCommand.DeviceReadyForData
          \/ (last.res # "Ok" /\ last.log = << >>)
  /\ last.op \in ChannelOps
       => /\ \A i \in 1..Len(last.log) :
               last.log[i].k = "cmd" => last.log[i].after = "READY"
          /\ (last.b[4] # << >> /\ last.b[4][1].k # "READY")
               => (last.res # "Ok" /\ last.log = << >>)

\* The status replies the last exchange took
StatusTaken == {i \in 1..Len(last.data) : last.data[i].as = "status"}

\* C22: when the first word of a response does not complement the id of the
\* command (last.a[1]), the command fails with IncorrectCmdResponse.
C22_EchoIsChecked ==
  (/\ last.op \in ChannelOps
   /\ \E i \in StatusTaken : last.data[i].echo # last.a[1])
    => last.res = "IncorrectCmdResponse"

\* The card error of a status, as the table of the card errors gives it
CardErrorOf(x) ==
  IF x \in -10..-1
    THEN <<"NotPresent", "Failure", "Invalid", "Changed", "FSNotInit", "FileExists",
           "CardFull", "NotFound", "StateInvalid", "StateLimit">>[-x]
  ELSE "Unknown"

\* C23: a command that reads a status word returns Ok only when the status is
\* 0, and for every other status the card error of the table.
C23_StatusZeroOnlyIsOk ==
  /\ last.op = "fs::init_fs"
       => last.res = (IF last.a[3] = 0 THEN "Ok" ELSE CardErrorOf(last.a[3]))
  /\ (/\ last.op \in ChannelOps
      /\ \E i \in StatusTaken : last.data[i].st # 0 /\ last.data[i].echo = last.a[1])
       => \E i \in StatusTaken : last.res = CardErrorOf(last.data[i].st)

\* The errors of a command the card refused
CardErrors == {"Command", "CheckBlockWrite"}

\* C24: a block read or write makes at most ATTEMPTS attempts, returns an
\* error of the transport only after the last of them has failed, and returns
\* a negative status of the card at once, after one attempt.
C24_RetriesTransportErrorsOnly ==
  last.op \in {"read_block_spare", "write_block_spare"}
    => /\ last.start <= ATTEMPTS
       /\ last.res \notin CardErrors \cup {"Ok"} => last.start = ATTEMPTS
       /\ (\E i \in StatusTaken : last.data[i].st < 0)
            => (last.start = 1 /\ last.res # "Ok")

\* C25: every reply the host takes as the status, the block data or the spare
\* of a command consists of frames the device produced for the command the
\* host had sent last, and is the part of the answer it is taken for; this
\* holds in the exchanges whose attempts fail part-way and are retried too.
C25_RepliesBelongToLastCommand ==
  last.op \in ChannelOps
    => \A i \in 1..Len(last.data) :
         /\ last.data[i].for = {last.data[i].cmd}
         /\ last.data[i].what = {last.data[i].as}

\* A block read whose first attempt was cut by a timeout or a short piece,
\* leaving frames of its answer unread, and whose later attempt succeeded
C25_RetriedReadTookItsOwnReply ==
  /\ last.op = "read_block_spare"
  /\ last.b[1] > 0 \/ last.b[5] > 0
  /\ last.start > 1
  /\ last.res = "Ok"
  /\ \E i \in 1..Len(last.data) : last.data[i].as = "spare" /\ last.data[i].cmd > 1

\* WriteFile(data, n) alone, from the handle and the card as they were before
\* the last operation
WriteFileAlone(data, n) ==
  WriteFile(Machine(last.prefat, last.prenand, DeviceScan(last.prenand), cardsize,
                    NoFault), data, n)

\* The device found the checksum of the stored file equal to the one of the
\* data, so m wrote nothing
SameContent(m) ==
  m.log # << >> /\ m.log[1].c = "ChksumFile" /\ m.log[1].ok

\* C26: when DeleteFile(n) of an existing file n is followed by WriteFile(d, n)
\* with data d that fits (free blocks plus the blocks of n) and differs from
\* the stored content, the FAT entries and the directory of the handle are
\* those WriteFile(d, n) alone gives from the state before the DeleteFile.
C26_DeleteThenWriteIsWrite ==
  [][(/\ last.op = "DeleteFile" /\ last.wasinit /\ last.res = "Ok"
      /\ find_file(last.prefat, last.a) # 0
      /\ last'.op = "WriteFile" /\ last'.wasinit /\ last'.a = last.a
      /\ Len(last'.data) <= BLOCK_SIZE * (get_free_block_count(last.prefat)
                                          + ExistingBlocks(last.prefat, last.a))
      /\ ~SameContent(WriteFileAlone(last'.data, last.a)))
       => /\ fat'.entries = WriteFileAlone(last'.data, last.a).fat.entries
          /\ fat'.files = WriteFileAlone(last'.data, last.a).fat.files]_vars

\* The valid entries of f that find_file takes for the name n
NamedIn(f, n) ==
  {i \in 1..Len(f.files) :
     f.files[i].valid /\ format_name(f.files[i]) = to_lowercase(n)}

\* The generations the last operation wrote to the FAT area
GenerationsWritten ==
  {last.log[i].seqno : i \in {j \in 1..Len(last.log) :
                                /\ last.log[j].c = "WriteBlockAndSpare"
                                /\ last.log[j].what = "fat"}}

\* The entry of from before the rename is, renamed, the only entry named to
\* after it; the chain of a former file to is free and the chain of from is
\* as it was
Renamed(from, to, i) ==
  /\ NamedIn(fat, from) = {}
  /\ NamedIn(fat, to) = {i}
  /\ fat.files[i].start = last.prefat.files[i].start
  /\ fat.files[i].size = last.prefat.files[i].size
  /\ fat.files[i].pad = last.prefat.files[i].pad
  /\ \A k \in NamedIn(last.prefat, to) :
       \A b \in ChainSet(last.prefat.entries, last.prefat.files[k].start,
                         Len(last.prefat.entries)) : EntryOf(fat, b) = Free
  /\ \A b \in ChainSet(last.prefat.entries, last.prefat.files[i].start,
                       Len(last.prefat.entries)) :
       EntryOf(fat, b) = EntryOf(last.prefat, b)

\* C27: after a successful RenameFile(from, to) of a file from that exists to
\* another name, no valid entry is named from, exactly one is named to and has
\* the start, size and pad from had, a former file to is gone and its chain
\* free, the chain of from is unchanged, and one generation was written.
C27_RenameMovesTheEntry ==
  (/\ last.op = "RenameFile" /\ last.wasinit /\ last.res = "Ok"
   /\ to_lowercase(last.a) # to_lowercase(last.b)
   /\ find_file(last.prefat, last.a) # 0)
    => /\ Renamed(last.a, last.b, find_file(last.prefat, last.a))
       /\ Cardinality(GenerationsWritten) = 1

\* ------------------------------------------- cards of any size and any chain
\* The directory entry of a one-block file whose chain starts at the first
\* block of the data area
CardFile ==
  [set_size(set_name(FileEntryDefault, N_a), BLOCK_SIZE) EXCEPT
     !.valid = TRUE, !.start = Chain(RESERVED_BLOCKS)]

\* A card of size blocks whose FAT has frags fragments and the file CardFile;
\* the FAT entry of the file's first block is tail, the one after it next
CardWith(size, frags, tail, next, slot) ==
  update_fs(Machine([entries |-> [BaseEntries(frags * FAT_FRAGMENT) EXCEPT
                                    ![RESERVED_BLOCKS + 1] = tail,
                                    ![RESERVED_BLOCKS + 2] = next],
                     files |-> [i \in 1..MAX_FILES |->
                                  IF i = 1 THEN CardFile ELSE FileEntryDefault],
                     seqno |-> 0,
                     blkno |-> (slot + NUM_FATS - 1) % NUM_FATS],
                    [b \in 0..size - 1 |-> Erased], NoFat, size, NoFault)).nand

\* Cards whose size is one fragment, two fragments, or no multiple of a
\* fragment, with a FAT of one fragment or as many as the size asks for, and
\* a file whose chain ends well, meets an entry that is no link, runs in a
\* cycle or leaves the table
CardImages ==
  {CardWith(s[1], s[2], tail, next, slot) :
     s \in {<<FAT_FRAGMENT, 1>>, <<FAT_FRAGMENT + NUM_FATS, 1>>,
            <<2 * FAT_FRAGMENT, 1>>, <<2 * FAT_FRAGMENT, 2>>},
     tail \in {EndOfChain, Free, BadBlock, Reserved, Chain(RESERVED_BLOCKS),
               Chain(RESERVED_BLOCKS + 1), Chain(2 * FAT_FRAGMENT)},
     next \in {EndOfChain, Chain(RESERVED_BLOCKS)},
     slot \in {0, 1}}

CardInit == InitWith(CardImages)

CardSpec == CardInit /\ [][LoadNext]_vars

\* C28: a load of the FAT that returns fails with UnhandledCardSize unless the
\* card size is a positive multiple of FAT_FRAGMENT, and a FAT that was loaded
\* has exactly cardsize entries.
C28_CardSizeIsChecked ==
  (last.op = "Init" /\ last.res \notin {"Hang", "Panic"})
    => /\ (cardsize = 0 \/ cardsize % FAT_FRAGMENT # 0)
            => last.res = "UnhandledCardSize"
       /\ last.res = "Ok" => Len(fat.entries) = cardsize

\* The FAT find_best_fat reads from the card the last Init met
FoundFat == find_best_fat(last.prenand, cardsize)

\* The chain that starts at FAT entry e meets, through Chain links, an entry
\* that is Free, BadBlock or Reserved
RECURSIVE MeetsNoLink(_, _, _)
MeetsNoLink(entries, e, fuel) ==
  IF e.t \in {"Free", "BadBlock", "Reserved"} THEN TRUE
  ELSE IF e.t # "Chain" \/ fuel = 0 \/ e.n + 1 > Len(entries) THEN FALSE
  ELSE MeetsNoLink(entries, entries[e.n + 1], fuel - 1)

\* Some valid file of f has such a chain
Corrupt(f) ==
  \E i \in 1..Len(f.files) :
    f.files[i].valid /\ MeetsNoLink(f.entries, f.files[i].start, Len(f.entries))

\* C29: an Init returns Ok only when every valid file of the FAT it loaded has
\* a chain of Chain links that ends in EndOfChain, and a FAT in which a valid
\* file's chain meets a Free, BadBlock or Reserved entry is reported as an
\* error and not loaded.
C29_CorruptChainIsAnError ==
  (last.op = "Init" /\ FoundFat.r = "Ok")
    => /\ last.res = "Ok" => WellChained(ToFat(FoundFat.fat))
       /\ Corrupt(FoundFat.fat)
            => /\ last.res \notin {"Ok", "Hang", "Panic"}
               /\ ~HasFat(fat)

\* C30: Fat::check ends on every FAT, after at most as many links per file as
\* the FAT has entries: the load of an Init never stays in it.
C30_CheckTerminates ==
  (last.op = "Init" /\ FoundFat.r = "Ok") => check(FoundFat.fat) # "Hang"

\* ------------------------------------------------- commits under write faults
\* Sessions on a one-fragment and a two-fragment card: files are deleted and
\* renamed, and written while a block write may fail or be lost
CommitInit == InitWith({Image1, Image2})

CommitNext ==
  \/ InitOp(1, "none", NoFault)
  \/ WriteFileOp({<<1, 1, 1>>}, {N_a, N_b}, Faults)
  \/ DeleteFileOp({N_a, N_b})
  \/ RenameFileOp({N_a, N_b})

CommitSpec == CommitInit /\ [][CommitNext]_vars

\* The fragments a commit of the FAT loaded before the last operation writes
CommitFragments == Len(last.prefat.entries) \div FAT_FRAGMENT

\* The NAND block fragment j (from 0) of that commit goes to
CommitBlock(j) == cardsize - ((last.prefat.blkno + 1 + j) % NUM_FATS) - 1

\* The positions of the InitFS commands in the log of the last operation
InitFSAt == {p \in 1..Len(last.log) : last.log[p].c = "InitFS"}

\* Entry q of the log is the successful write of fragment j
WroteFragment(q, j) ==
  /\ last.log[q].c = "WriteBlockAndSpare"
  /\ last.log[q].what = "fat"
  /\ last.log[q].ok
  /\ last.log[q].blk = CommitBlock(j)
  /\ last.log[q].seqno = last.prefat.seqno + 1

\* The card holds f as fragment j of the commit of the loaded FAT
HoldsFragment(j, f) ==
  /\ f.fat = SubSeq(fat.entries, FAT_FRAGMENT * j + 1, FAT_FRAGMENT * (j + 1))
  /\ f.fs_type = (IF j = 0 THEN "BBFS" ELSE "BBFL")
  /\ Len(f.entries) = MAX_FILES
  /\ f.entries = (IF j = 0 THEN fat.files ELSE [i \in 1..MAX_FILES |-> FileEntryDefault])
  /\ f.seqno = last.prefat.seqno + 1
  /\ f.link_block = (IF j + 1 < CommitFragments THEN CommitBlock(j + 1) ELSE 0)

\* C31: a commit of a FAT of k fragments writes k fragments, fragment j to
\* block cardsize - ((blkno + 1 + j) mod NUM_FATS) - 1 with seqno + 1, and sends
\* InitFS only after k successful writes; after a DeleteFile or RenameFile that
\* committed, fragment j on the card holds entries [j, j + 1) * FAT_FRAGMENT,
\* the directory in fragment 0 only, magic BBFS for fragment 0 and BBFL for
\* the others, and the address of fragment j + 1 as link_block, 0 in the last.
C31_CommitWritesLinkedFragments ==
  (last.op \in {"WriteFile", "DeleteFile", "RenameFile"} /\ last.wasinit
     /\ HasFat(last.prefat))
    => /\ \A p \in InitFSAt :
            /\ p > CommitFragments
            /\ \A j \in 0..CommitFragments - 1 :
                 WroteFragment(p - CommitFragments + j, j)
       /\ (last.op # "WriteFile" /\ InitFSAt # {})
            => /\ Len(last.log) = CommitFragments + 1
               /\ \A j \in 0..CommitFragments - 1 :
                    /\ nand[CommitBlock(j)].k = "fs"
                    /\ HoldsFragment(j, FSBlockRead(nand[CommitBlock(j)]))

\* A DeleteFile has committed a FAT of more than one fragment
C31_TwoFragmentsCommitted ==
  /\ last.op = "DeleteFile" /\ last.wasinit /\ last.res = "Ok"
  /\ CommitFragments > 1
  /\ InitFSAt # {}
  /\ fat # last.prefat

\* ------------------------------------------------------------- DeleteFile
\* The number of Free entries of FAT f
FreeCount(f) == Cardinality({b \in 1..Len(f.entries) : f.entries[b] = Free})

\* The blocks of the chain of directory entry i of the FAT loaded before the
\* last operation
ChainBefore(i) ==
  ChainSet(last.prefat.entries, last.prefat.files[i].start, Len(last.prefat.entries))

\* The last operation deleted directory entry i and its chain, and nothing else
DeletedOnly(i) ==
  /\ fat.files = [last.prefat.files EXCEPT ![i] = FileEntryDefault]
  /\ Len(fat.entries) = Len(last.prefat.entries)
  /\ \A b \in 0..Len(fat.entries) - 1 :
       EntryOf(fat, b) = (IF b \in ChainBefore(i) THEN Free ELSE EntryOf(last.prefat, b))
  /\ FreeCount(fat) = FreeCount(last.prefat) + Cardinality(ChainBefore(i))

\* The last operation sent InitFS after it wrote every fragment of the loaded
\* FAT, and the card holds them
Committed ==
  /\ InitFSAt = {Len(last.log)}
  /\ Len(last.log) = CommitFragments + 1
  /\ \A j \in 0..CommitFragments - 1 :
       /\ WroteFragment(j + 1, j)
       /\ nand[CommitBlock(j)].k = "fs"
       /\ HoldsFragment(j, FSBlockRead(nand[CommitBlock(j)]))

\* C32: DeleteFile of an existing file resets its directory entry to the
\* invalid default, sets every FAT entry on its chain to Free, leaves every
\* other FAT entry and directory entry unchanged, raises the free count by the
\* length of the chain, and commits; DeleteFile of a name that is not present
\* leaves the loaded FAT unchanged and returns Ok.
C32_DeleteFileFrame ==
  (/\ last.op = "DeleteFile"
   /\ last.wasinit
   /\ HasFat(last.prefat)
   /\ last.res # "Panic")
    => IF find_file(last.prefat, last.a) = 0
         THEN fat = last.prefat /\ last.res = "Ok"
         ELSE /\ DeletedOnly(find_file(last.prefat, last.a))
              /\ Committed

\* A file with a chain of two blocks was deleted from a two-fragment card
C32_DeletedTwoBlocks ==
  /\ last.op = "DeleteFile"
  /\ last.wasinit
  /\ last.res = "Ok"
  /\ CommitFragments > 1
  /\ find_file(last.prefat, last.a) # 0
  /\ Cardinality(ChainBefore(find_file(last.prefat, last.a))) = 2
  /\ FreeCount(fat) = FreeCount(last.prefat) + 2

\* ---------------------------------------------------- reading a stored file
\* A card of one fragment whose block b holds the bytes b, with a file "a" of
\* filesize bytes whose chain starts at the first block of the data area; the
\* FAT entry of that block is tail, the one after it next, and the third ends
\* the chain
ReadCard(filesize, tail, next) ==
  update_fs(Machine([entries |-> [BaseEntries(FAT_FRAGMENT) EXCEPT
                                    ![RESERVED_BLOCKS + 1] = tail,
                                    ![RESERVED_BLOCKS + 2] = next,
                                    ![RESERVED_BLOCKS + 3] = EndOfChain],
                     files |-> [i \in 1..MAX_FILES |->
                                  IF i = 1
                                    THEN [set_size(set_name(FileEntryDefault, N_a),
                                                   filesize)
                                            EXCEPT !.valid = TRUE,
                                                   !.start = Chain(RESERVED_BLOCKS)]
                                    ELSE FileEntryDefault],
                     seqno |-> 0,
                     blkno |-> NUM_FATS - 1],
                    [b \in 0..FAT_FRAGMENT - 1 |-> RawBlock([i \in 1..BLOCK_SIZE |-> b])],
                    NoFat, FAT_FRAGMENT, NoFault)).nand

\* Files of up to three blocks on chains of one, two or three blocks
ReadImages ==
  {ReadCard(filesize, tail, next) :
     filesize \in 0..3 * BLOCK_SIZE,
     tail \in {EndOfChain, Chain(RESERVED_BLOCKS + 1)},
     next \in {EndOfChain, Chain(RESERVED_BLOCKS + 2)}}

ReadInit == InitWith(ReadImages)

ReadNext ==
  \/ InitOp(0, "none", NoFault)
  \/ ReadFileOp

ReadSpec == ReadInit /\ [][ReadNext]_vars

\* The last ReadFile returned the first size - pad bytes of the chain of
\* directory entry i
ReadWhole(i) ==
  /\ Len(last.data) = FileSize(fat.files[i])
  /\ Len(ChainBytes(fat.entries, nand, fat.files[i].start, Len(fat.entries))) >= FileSize(fat.files[i])
  /\ last.data = SubSeq(ChainBytes(fat.entries, nand, fat.files[i].start, Len(fat.entries)), 1,
                        FileSize(fat.files[i]))

\* C33: ReadFile of a name that is not in the directory returns Ok(None) and
\* reads no block; ReadFile of an existing file reads at most
\* ceil((size - pad) / BLOCK_SIZE) blocks, and when it returns Ok its data are
\* exactly size - pad bytes, those of the blocks of the chain in chain order.
C33_ReadFileReturnsWholeFile ==
  (last.op = "ReadFile" /\ last.wasinit)
    => IF find_file(fat, last.a) = 0
         THEN last.res = "Ok" /\ last.log = << >> /\ last.data = << >>
         ELSE /\ Len(last.log) <= bytes_to_blocks(FileSize(fat.files[find_file(fat, last.a)]))
              /\ last.res = "Ok" => ReadWhole(find_file(fat, last.a))

\* ------------------------------------------------------ writing one block
\* The pieces send_block sends for one block
BlockPieces == (BLOCK_SIZE + BLOCK_CHUNK_SIZE - 1) \div BLOCK_CHUNK_SIZE

\* Message i of the last exchange follows what write_block_spare sends before
\* it in one attempt: the command opens an attempt, a piece of the block
\* follows the command or a piece, the spare follows the command and all the
\* pieces, and the acknowledgement of the status that was read follows the spare
InWriteOrder(i) ==
  /\ last.log[i].k \in {"cmd", "chunk", "spare", "ack"}
  /\ last.log[i].k = "ack" => (i > 1 /\ last.log[i - 1].k = "spare")
  /\ last.log[i].k = "cmd" => last.log[i].id = Command.WriteBlockAndSpare
  /\ last.log[i].k = "chunk" => (i > 1 /\ last.log[i - 1].k \in {"cmd", "chunk"})
  /\ last.log[i].k = "spare"
       => /\ i > BlockPieces + 1
          /\ last.log[i - BlockPieces - 1].k = "cmd"
          /\ \A j \in 1..BlockPieces : last.log[i - j].k = "chunk"

\* Every status the last exchange took was read, and acknowledged, right after
\* a spare was sent
StatusAfterSpare ==
  \A g \in StatusTaken :
    /\ last.data[g].at > 1
    /\ last.log[last.data[g].at].k = "ack"
    /\ last.log[last.data[g].at - 1].k = "spare"

\* C34: a block write whose spare marks the block bad (byte 5 is not 0xFF)
\* returns Ok and sends no command and no data; any other block write sends, in
\* every attempt, the WriteBlockAndSpare command, then the block, then the
\* spare, and reads the status only then, and it returns Ok only after it read
\* the status that follows the spare.
C34_BadBlockWriteIsSkipped ==
  last.op = "write_block_spare"
    => IF last.a[4]
         THEN last.res = "Ok" /\ last.log = << >> /\ last.data = << >>
              /\ wire.inq = last.b[4]
         ELSE /\ \A i \in 1..Len(last.log) : InWriteOrder(i)
              /\ StatusAfterSpare
              /\ last.res = "Ok"
                   => /\ last.log # << >>
                      /\ last.log[Len(last.log)].k = "ack"
                      /\ last.data # << >>
                      /\ last.data[Len(last.data)].as = "status"
                      /\ last.data[Len(last.data)].at = Len(last.log)

\* A block that is not marked bad was written in the second attempt
C34_WrittenInSecondAttempt ==
  /\ last.op = "write_block_spare"
  /\ ~last.a[4]
  /\ last.res = "Ok"
  /\ last.start = 2
  /\ Len(last.log) > BlockPieces + 2

\* ------------------------------------------------------- reading one block
\* The number of zero bits among the low n bits of b
RECURSIVE ZeroBits(_, _)
ZeroBits(b, n) ==
  IF n = 0 THEN 0 ELSE (1 - (b % 2)) + ZeroBits(b \div 2, n - 1)

\* The spares the last exchange took
SparesTaken == {i \in 1..Len(last.data) : last.data[i].as = "spare"}

\* C35: a block read whose spare has more than one zero bit in byte 5 fails
\* with BadBlock and is never returned as a success; a read whose status is 0
\* and whose spare has 0xFF in byte 5, on a transport without fault, returns Ok
\* with the pieces of the block and the spare.
C35_BadSpareIsBadBlock ==
  last.op = "read_block_spare"
    => /\ (\E g \in SparesTaken : ZeroBits(last.data[g].b5, 8) > 1)
            => last.res = "BadBlock"
       /\ (/\ last.a[2] = last.a[1]
           /\ last.a[3] = 0
           /\ last.a[4] = 255
           /\ last.b = <<0, FALSE, 0, <<READY_SIGNAL(wire.recvd - 1)>>, 0>>)
            => /\ last.res = "Ok"
               /\ SparesTaken # {}
               /\ Cardinality({i \in 1..Len(last.data) : last.data[i].as = "block"})
                    = BLOCK_SIZE \div BLOCK_CHUNK_SIZE

\* --------------------------------------------- cards whose fragments link
\* A FAT block of an empty one-fragment file system of seqno 1 whose
\* link_block is link
LinkedFragment(fs_type, link) ==
  fix_fat_checksum([Fragment(1, fs_type) EXCEPT !.link_block = link])

\* A card of one fragment whose slot holds the BBFS fragment, linked to block
\* link, and whose other FAT blocks hold other
LinkCard(slot, link, other) ==
  [b \in 0..FAT_FRAGMENT - 1 |->
     IF b = FAT_FRAGMENT - slot - 1 THEN LinkedFragment("BBFS", link)
     ELSE IF b \in FatArea(FAT_FRAGMENT) THEN other
     ELSE Erased]

\* The first fragment links to nothing, to itself, to another block of the FAT
\* area, to a block of the data area or to a block past the card; the other
\* FAT blocks are erased, end the chain, or link back to the last FAT block
LinkImages ==
  {LinkCard(slot, link, other) :
     slot \in 0..NUM_FATS - 1,
     link \in 0..FAT_FRAGMENT,
     other \in {Erased, LinkedFragment("BBFL", 0),
                LinkedFragment("BBFL", FAT_FRAGMENT - 1)}}

LinkInit == InitWith(LinkImages)

LinkSpec == LinkInit /\ [][LoadNext]_vars

\* C36: find_best_fat ends on every content of the card, with an error or a
\* FAT, also when link_block fields form a cycle or point outside the FAT
\* area, and it reads no more fragments than the card has
\* (cardsize / FAT_FRAGMENT).
C36_FindBestFatTerminates ==
  last.op = "Init"
    => /\ FoundFat.r # "Diverge"
       /\ Len(FoundFat.fat.addrs) <= cardsize \div FAT_FRAGMENT

\* ------------------------------------------------- the committed generation
\* The last operation was a file operation that returned Ok on a device that
\* lost no write
Succeeded ==
  /\ last.op \in {"WriteFile", "DeleteFile", "RenameFile"}
  /\ last.wasinit
  /\ last.res = "Ok"
  /\ last.flt.lose = 0

\* C37: after a successful DeleteFile, RenameFile or WriteFile, and so after
\* every successful update_fs, find_best_fat on the content of the card returns
\* a FAT whose entries and directory equal those of the loaded FAT.
C37_ReloadGivesCommittedFat ==
  Succeeded
    => /\ find_best_fat(nand, cardsize).r = "Ok"
       /\ find_best_fat(nand, cardsize).fat.entries = fat.entries
       /\ find_best_fat(nand, cardsize).fat.files = fat.files

\* ----------------------------------------------------- renaming no file
\* C38: RenameFile(from, to) with from not present and from # to returns
\* FileNotFound and leaves the loaded FAT unchanged: a file named to is still
\* valid with its chain, no block is freed, and nothing is committed.
C38_RenameOfAbsentChangesNothing ==
  (/\ last.op = "RenameFile"
   /\ last.wasinit
   /\ HasFat(last.prefat)
   /\ to_lowercase(last.a) # to_lowercase(last.b)
   /\ find_file(last.prefat, last.a) = 0)
    => /\ last.res = "FileNotFound"
       /\ fat = last.prefat
       /\ last.log = << >>
       /\ nand = last.prenand

\* ------------------------------------------------------------ unique names
\* No two valid directory entries of f have the same formatted name
UniqueNames(f) ==
  \A i, j \in 1..Len(f.files) :
    (i # j /\ f.files[i].valid /\ f.files[j].valid)
      => format_name(f.files[i]) # format_name(f.files[j])

\* The FAT loaded before the last operation was the current generation of the
\* card, as it is after Init and after every successful operation
InSyncBefore ==
  /\ find_best_fat(last.prenand, cardsize).r = "Ok"
  /\ find_best_fat(last.prenand, cardsize).fat.entries = last.prefat.entries
  /\ find_best_fat(last.prenand, cardsize).fat.files = last.prefat.files

\* C39: a successful WriteFile, RenameFile or DeleteFile on a FAT without two
\* valid entries of the same formatted name leaves no two valid entries with
\* the same formatted name, for every name the library accepts (with a trailing
\* '.' too), and after a WriteFile a lookup with the name that was passed finds
\* an entry: the entry of the data written, when the call wrote them.
C39_NamesStayUnique ==
  (/\ Succeeded
   /\ InSyncBefore
   /\ UniqueNames(last.prefat))
    => /\ UniqueNames(fat)
       /\ last.op = "WriteFile"
            => /\ find_file(fat, last.a) # 0
               /\ ~ShortCircuit => ReadFile(fat, nand, last.a).data = last.data

\* ------------------------------------------------------- chains of files
\* The blocks of the chain that starts at FAT entry e, in chain order
RECURSIVE ChainSeq(_, _, _)
ChainSeq(entries, e, fuel) ==
  IF e.t # "Chain" \/ fuel = 0 \/ e.n + 1 > Len(entries) THEN << >>
  ELSE <<e.n>> \o ChainSeq(entries, entries[e.n + 1], fuel - 1)

\* The blocks on the chain of directory entry i of f
ChainOfFile(f, i) == ChainSet(f.entries, f.files[i].start, Len(f.entries))

\* No block lies on the chains of two valid files of f, and no block on the
\* chain of a valid file is marked Free
SoundChains(f) ==
  /\ \A i, j \in 1..Len(f.files) :
       (i # j /\ f.files[i].valid /\ f.files[j].valid)
         => ChainOfFile(f, i) \cap ChainOfFile(f, j) = {}
  /\ \A i \in 1..Len(f.files) :
       f.files[i].valid => \A b \in ChainOfFile(f, i) : EntryOf(f, b) # Free

\* Block b was Free when the last WriteFile allocated: Free in the FAT loaded
\* before the call, or on the chain of the file of that name or of temp.tmp,
\* which the call deletes first
FreeAtAllocation(b) ==
  \/ EntryOf(last.prefat, b) = Free
  \/ \E n \in {last.a, TEMP_TMP} :
       /\ find_file(last.prefat, n) # 0
       /\ b \in ChainOfFile(last.prefat, find_file(last.prefat, n))

\* The valid entries the last operation created
Created ==
  {i \in 1..Len(fat.files) :
     /\ fat.files[i].valid
     /\ \A j \in 1..Len(last.prefat.files) : last.prefat.files[j] # fat.files[i]}

\* C40: a WriteFile, DeleteFile or RenameFile, successful or failing, on a
\* loaded FAT in which no block lies on the chains of two valid files and no
\* block of a chain is Free leaves such a FAT, and the blocks a WriteFile
\* allocates for its file were Free before the allocation and are chained in
\* strictly increasing order.
C40_ChainsStayDisjoint ==
  (/\ last.op \in {"WriteFile", "DeleteFile", "RenameFile"}
   /\ last.wasinit
   /\ HasFat(last.prefat)
   /\ last.res # "Panic"
   /\ SoundChains(last.prefat))
    => /\ SoundChains(fat)
       /\ last.op = "WriteFile"
            => \A i \in Created :
                 \E c \in {ChainSeq(fat.entries, fat.files[i].start, Len(fat.entries))} :
                   /\ \A k \in 1..Len(c) : FreeAtAllocation(c[k])
                   /\ \A k \in 1..Len(c) - 1 : c[k] < c[k + 1]
====
